---------------------------- MODULE Spec2Model ----------------------------
(***************************************************************************)
(* Vehicle pre-inspection pipeline (backend/analysis/*.py, backend/main.py) *)
(* as state machines: the Confidence Aggregator, the Damage Inference       *)
(* Engine, the Engine Audio Analyzer and the session store with its         *)
(* /analysis/{token}/run handler.                                           *)
(*                                                                          *)
(* Numbers: confidence points are integers (every term of the score is a    *)
(* whole number of points), ratios are integers in hundredths (coverage,    *)
(* detection confidence, heuristic signals) or thousandths (audio signals). *)
(* The level strings of ai_confidence.py are written without diacritics:    *)
(* "dusuk" (low), "orta" (medium), "yuksek" (high), "bilinmiyor" (unknown). *)
(***************************************************************************)
EXTENDS Integers, Sequences, FiniteSets, TLC

VARIABLES
    confIn,     \* the upstream reports handed to compute_confidence
    confOut,    \* what compute_confidence returned
    dmgIn,      \* run_damage_pipeline's arguments, the frame files and the detector
    dmgOut,     \* what run_damage_pipeline returned, or that it raised
    audIn,      \* analyze_engine_audio's arguments, the source file and the ffmpeg tool
    apc,        \* where the analyze_engine_audio call stands
    audFs,      \* the temporary directory and the waveform file in it
    audRc,      \* the return code of the ffmpeg process, -1 while there is none
    audOut,     \* what analyze_engine_audio returned
    audHist,    \* what the call has done: directory created, process started, extracted
    mainEnv,    \* the server's environment: USE_GPU_WORKER, PUBLIC_BASE_URL
    sessions,   \* the result file of each token (uploads/results/<token>.json)
    imgFiles,   \* the image files on disk of each token (img_<n>)
    resp,       \* the last response given for each token
    narIn,      \* generate_human_commentary's arguments, the credential and the LLM service
    narOut,     \* what generate_human_commentary returned
    tamIn,      \* the image file given to the two tamper checks
    boltOut,    \* what bolt_tamper_assessment returned, or that it raised
    paintOut,   \* what paint_local_repair_score returned, or that it raised
    covIn,      \* the frame files given to estimate_coverage
    covOut,     \* what estimate_coverage returned
    vqIn,       \* the video file given to analyze_video_quality
    vqOut,      \* what analyze_video_quality returned
    fxIn,       \* extract_frames' arguments, the video file and the output directory
    fxpc,       \* where the extract_frames call stands
    fxI,        \* the index i of the next frame cap.read() gives
    fxFrames,   \* the list frames of the paths appended so far
    fxDisk,     \* the frame files that exist in out_dir
    fxOut,      \* what extract_frames returned
    susIn,      \* extract_suspicious_frames' arguments: the damage report, output_dir, max_images
    susOut,     \* what extract_suspicious_frames returned and the thumbnails it wrote
    jobsFile,   \* the list stored in jobs_queue.json
    jobReq,     \* the /jobs/create and /jobs/next requests: where each stands, its local list, its answer
    upSession,  \* the session record of the token: whether it exists and its images list
    upDisk,     \* the image files of the token: index n of img_<n> to the upload it holds
    upCall      \* the upload_images calls for the token: where each stands and its local variables

confVars == <<confIn, confOut>>
dmgVars == <<dmgIn, dmgOut>>
audVars == <<audIn, apc, audFs, audRc, audOut, audHist>>
mainVars == <<mainEnv, sessions, imgFiles, resp>>
narVars == <<narIn, narOut>>
tamVars == <<tamIn, boltOut, paintOut>>
covVars == <<covIn, covOut>>
vqVars == <<vqIn, vqOut>>
fxVars == <<fxIn, fxpc, fxI, fxFrames, fxDisk, fxOut>>
susVars == <<susIn, susOut>>
jobsVars == <<jobsFile, jobReq>>
upVars == <<upSession, upDisk, upCall>>
vars ==
    <<confIn, confOut, dmgIn, dmgOut, audIn, apc, audFs, audRc, audOut, audHist,
      mainEnv, sessions, imgFiles, resp, narIn, narOut, tamIn, boltOut, paintOut,
      covIn, covOut, vqIn, vqOut, fxIn, fxpc, fxI, fxFrames, fxDisk, fxOut,
      susIn, susOut,
      jobsFile, jobReq,
      upSession, upDisk, upCall>>

\* What a call of one component leaves alone: every other component's state.
notConfVars == <<dmgVars, audVars, mainVars, narVars, tamVars, covVars, vqVars, fxVars, susVars, jobsVars, upVars>>
notDmgVars == <<confVars, audVars, mainVars, narVars, tamVars, covVars, vqVars, fxVars, susVars, jobsVars, upVars>>
notAudVars == <<confVars, dmgVars, mainVars, narVars, tamVars, covVars, vqVars, fxVars, susVars, jobsVars, upVars>>
notMainVars == <<confVars, dmgVars, audVars, narVars, tamVars, covVars, vqVars, fxVars, susVars, jobsVars, upVars>>
notNarVars == <<confVars, dmgVars, audVars, mainVars, tamVars, covVars, vqVars, fxVars, susVars, jobsVars, upVars>>
notTamVars == <<confVars, dmgVars, audVars, mainVars, narVars, covVars, vqVars, fxVars, susVars, jobsVars, upVars>>
notCovVars == <<confVars, dmgVars, audVars, mainVars, narVars, tamVars, vqVars, fxVars, susVars, jobsVars, upVars>>
notVqVars == <<confVars, dmgVars, audVars, mainVars, narVars, tamVars, covVars, fxVars, susVars, jobsVars, upVars>>
notFxVars == <<confVars, dmgVars, audVars, mainVars, narVars, tamVars, covVars, vqVars, susVars, jobsVars, upVars>>
notSusVars == <<confVars, dmgVars, audVars, mainVars, narVars, tamVars, covVars, vqVars, fxVars, jobsVars, upVars>>
notJobsVars == <<confVars, dmgVars, audVars, mainVars, narVars, tamVars, covVars, vqVars, fxVars, susVars, upVars>>
notUpVars == <<confVars, dmgVars, audVars, mainVars, narVars, tamVars, covVars, vqVars, fxVars, susVars, jobsVars>>

Min2(a, b) == IF a < b THEN a ELSE b
Max2(a, b) == IF a > b THEN a ELSE b

(***************************************************************************)
(* Confidence Aggregator: ai_confidence.py                                  *)
(***************************************************************************)
QualityFlags == {"too_short", "too_low_res", "too_dark", "too_bright", "too_blurry", "too_shaky"}

\* coverage_ratio values in hundredths: both sides of every tier breakpoint, the
\* 0.20 estimate_coverage gives when it saw no motion, and values outside [0,1]
\* (the function takes any float).
CovValues == {-5, 0, 20, 34, 35, 54, 55, 69, 70, 100, 120}

DamageMethods == {"yolo", "heuristic", "none", "other"}

\* clipping_ratio values in thousandths: both sides of the 0.02 breakpoint.
ClipValues == {0, 20, 21, 500}

\* engine_audio argument: None, an EV skip, a failed extraction, an analysed clip.
NoAudio == [present |-> FALSE, ok |-> FALSE, skipped |-> FALSE, clipping_ratio |-> 0]
AudioReports ==
    {NoAudio}
    \cup {[present |-> TRUE, ok |-> TRUE, skipped |-> TRUE, clipping_ratio |-> 0]}
    \cup {[present |-> TRUE, ok |-> FALSE, skipped |-> FALSE, clipping_ratio |-> 0]}
    \cup {[present |-> TRUE, ok |-> TRUE, skipped |-> FALSE, clipping_ratio |-> c] : c \in ClipValues}

ConfInputs ==
    [video_quality : SUBSET QualityFlags, coverage_ratio : CovValues,
     method : DamageMethods, engine_audio : AudioReports]

NoConfInput == [video_quality |-> {}, coverage_ratio |-> 0, method |-> "unset", engine_audio |-> NoAudio]
NoConfidence == [ok |-> FALSE, confidence_score |-> 0, confidence_level |-> "unset"]

BaseScore == 78

FlagPenalty(flag) ==
    CASE flag = "too_short" -> 18
      [] flag = "too_low_res" -> 14
      [] flag = "too_dark" -> 10
      [] flag = "too_bright" -> 8
      [] flag = "too_blurry" -> 16
      [] flag = "too_shaky" -> 10

RECURSIVE SumPenalties(_)
SumPenalties(flags) ==
    IF flags = {} THEN 0
    ELSE LET f == CHOOSE x \in flags : TRUE
         IN FlagPenalty(f) + SumPenalties(flags \ {f})

QualityPenaltyWorstOnly(raised) ==
    IF raised = {} THEN 0
    ELSE FlagPenalty(CHOOSE f \in raised : \A g \in raised : FlagPenalty(g) <= FlagPenalty(f))
QualityPenalty(raised) == SumPenalties(raised)

CoveragePenalty(cov) ==
    IF cov < 35 THEN 22
    ELSE IF cov < 55 THEN 12
    ELSE IF cov < 70 THEN 6
    ELSE 0

AudioPenalty(ea) ==
    IF ea.present /\ ea.ok /\ ~ea.skipped
    THEN (IF ea.clipping_ratio > 20 THEN 8 ELSE 0)
    ELSE 0

MethodAdjustDetectorOnly(method) ==
    IF method = "yolo" THEN 6
    ELSE IF method = "heuristic" THEN 0
    ELSE -10
MethodAdjust(method) ==
    IF method = "yolo" THEN 6
    ELSE IF method = "heuristic" THEN -4
    ELSE -10

RawScore(in) ==
    BaseScore - QualityPenalty(in.video_quality) - CoveragePenalty(in.coverage_ratio)
        - AudioPenalty(in.engine_audio) + MethodAdjust(in.method)

ClampNoFloor(score) == Min2(100, score)
ClampScore(score) == Max2(0, Min2(100, score))

ConfidenceLevelInclusive(score) ==
    IF score <= 45 THEN "dusuk"
    ELSE IF score <= 70 THEN "orta"
    ELSE "yuksek"
ConfidenceLevel(score) ==
    IF score < 45 THEN "dusuk"
    ELSE IF score < 70 THEN "orta"
    ELSE "yuksek"

compute_confidence(in) ==
    LET score == ClampScore(RawScore(in))
    IN [ok |-> TRUE, confidence_score |-> score, confidence_level |-> ConfidenceLevel(score)]

InitConfidence ==
    /\ confIn \in ConfInputs
    /\ confOut = NoConfidence

IdleConfidence ==
    /\ confIn = NoConfInput
    /\ confOut = NoConfidence

ComputeConfidence ==
    /\ confIn \in ConfInputs
    /\ confOut = NoConfidence
    /\ confOut' = compute_confidence(confIn)
    /\ UNCHANGED confIn
    /\ UNCHANGED notConfVars

NextConfidence == ComputeConfidence



(***************************************************************************)
(* Damage Inference Engine: damage_pipeline.py, live_yolo.py                *)
(***************************************************************************)
MaxFrames == 2

DEFAULT_DAMAGE_LABELS ==
    {"scratch", "dent", "crack", "broken", "damage", "bumper_damage", "door_dent",
     "headlight_broken", "taillight_broken", "paint_peel"}

\* Labels of the model's detections that contain one of the keywords scratch,
\* dent, crack, broken, damage, paint as a substring (damage_pipeline.py:115).
KeywordLabels == {"scratch", "dent", "deep_crack"}

IsSuspectLabel(lbl) == lbl \in DEFAULT_DAMAGE_LABELS \/ lbl \in KeywordLabels

Det(label, conf) == [label |-> label, conf |-> conf]

\* What detector.predict does on a frame: raises, or returns detections
\* (confidence in hundredths; 0.60 and 0.75 are the severity breakpoints).
PredictOutcomes ==
    {[raises |-> TRUE, dets |-> <<>>],
     [raises |-> FALSE, dets |-> <<>>],
     [raises |-> FALSE, dets |-> <<Det("dent", 60)>>],
     [raises |-> FALSE, dets |-> <<Det("dent", 75)>>],
     [raises |-> FALSE, dets |-> <<Det("car", 90)>>],
     [raises |-> FALSE, dets |-> <<Det("scratch", 30), Det("dent", 40), Det("deep_crack", 44)>>]}

\* Measured pixel features of an image file: edge density in thousandths, the
\* Laplacian variance, the standard deviations of saturation and value.
\* decodable = FALSE: cv2.imread returns None; tiny: an image under 10 px.
Image(decodable, tiny, ed, lap, sat, val) ==
    [decodable |-> decodable, tiny |-> tiny, edge_density |-> ed, lap_var |-> lap,
     sat_std |-> sat, val_std |-> val]
Images ==
    {Image(FALSE, FALSE, 0, 0, 0, 0),
     Image(TRUE, TRUE, 130, 1050, 100, 115),
     Image(TRUE, FALSE, 10, 100, 20, 30),
     Image(TRUE, FALSE, 80, 600, 65, 75),
     Image(TRUE, FALSE, 200, 2000, 120, 150)}

MissingFrame ==
    [exists |-> FALSE, image |-> Image(FALSE, FALSE, 0, 0, 0, 0),
     predict |-> [raises |-> FALSE, dets |-> <<>>]]
FrameFiles ==
    {MissingFrame} \cup [exists : {TRUE}, image : Images, predict : PredictOutcomes]

RECURSIVE SeqsUpTo(_, _)
SeqsUpTo(S, n) ==
    IF n = 0 THEN {<<>>}
    ELSE LET shorter == SeqsUpTo(S, n - 1)
         IN shorter \cup {Append(q, x) : q \in {r \in shorter : Len(r) = n - 1}, x \in S}

\* yolo_model_path given or not, and what constructing the detector meets.
DetectorEnv(given, installed, file, loadRaises) ==
    [model_path_given |-> given, yolo_installed |-> installed,
     model_file_exists |-> file, load_raises |-> loadRaises]
DetectorEnvs ==
    {DetectorEnv(FALSE, TRUE, TRUE, FALSE),
     DetectorEnv(TRUE, FALSE, TRUE, FALSE),
     DetectorEnv(TRUE, TRUE, FALSE, FALSE),
     DetectorEnv(TRUE, TRUE, TRUE, TRUE),
     DetectorEnv(TRUE, TRUE, TRUE, FALSE)}

DefaultYoloConf == 25
DefaultMaxFramesToProcess == 28
FindingsCap == 40
NotableCap == 10

DamageInputs ==
    [frames : SeqsUpTo(FrameFiles, MaxFrames), detector : DetectorEnvs,
     yolo_conf : {DefaultYoloConf}, max_frames_to_process : {1, DefaultMaxFramesToProcess}]

NoDamageInput ==
    [frames |-> <<>>, detector |-> DetectorEnv(FALSE, FALSE, FALSE, FALSE),
     yolo_conf |-> 0, max_frames_to_process |-> 0]

Clip01(x) == Max2(0, Min2(100, x))

\* _heuristic_damage_signals: rescaled signals in hundredths.
HeuristicDamageSignals(img) ==
    IF img.tiny
    THEN [scratch_like |-> 0, dent_like |-> 0, repaint_like |-> 0]
    ELSE [scratch_like |-> Clip01(((img.edge_density - 30) * 100) \div 100),
          dent_like |-> Clip01(((img.lap_var - 150) * 100) \div 900),
          repaint_like |->
              Clip01((Clip01(((img.sat_std - 30) * 100) \div 70) * 60
                      + Clip01(((img.val_std - 35) * 100) \div 80) * 40) \div 100)]

\* 0.45*scratch + 0.35*dent + 0.20*repaint, in ten-thousandths.
WeightedSignals(sig) == 45 * sig.scratch_like + 35 * sig.dent_like + 20 * sig.repaint_like

\* YoloDetector.__init__: "ok" or the exception it raises.
YoloDetectorInit(det) ==
    IF ~det.yolo_installed THEN "RuntimeError"
    ELSE IF ~det.model_file_exists THEN "FileNotFoundError"
    ELSE IF det.load_raises THEN "LoadError"
    ELSE "ok"

\* Lines 82-90: the detector is used only when a path is given and construction
\* raised nothing.
UseYoloUnguarded(det) == det.model_path_given
UseYolo(det) == det.model_path_given /\ YoloDetectorInit(det) = "ok"

\* Line 72: the frames that exist, each with its position in the argument.
RECURSIVE ExistingFrom(_, _)
ExistingFrom(frames, i) ==
    IF i > Len(frames) THEN <<>>
    ELSE IF frames[i].exists
         THEN <<[frame |-> i, file |-> frames[i]]>> \o ExistingFrom(frames, i + 1)
         ELSE ExistingFrom(frames, i + 1)
ExistingFrames(frames) == ExistingFrom(frames, 1)

Head_n(q, n) == SubSeq(q, 1, Min2(n, Len(q)))

\* Lines 103-110: one frame's detections folded into the running state.
RECURSIVE FoldDets(_, _, _, _, _)
FoldDets(dets, k, fp, yolo_conf, acc) ==
    IF k > Len(dets) THEN acc
    ELSE LET d == dets[k]
             counts == acc.label_counts
             n == IF d.label \in DOMAIN counts THEN counts[d.label] ELSE 0
             keep == d.conf >= Max2(45, yolo_conf)
         IN FoldDets(dets, k + 1, fp, yolo_conf,
                [label_counts |-> [l \in DOMAIN counts \cup {d.label} |->
                                      IF l = d.label THEN n + 1 ELSE counts[l]],
                 top_conf |-> Max2(acc.top_conf, d.conf),
                 findings |-> IF keep
                              THEN Append(acc.findings,
                                      [frame |-> fp, type |-> "yolo", label |-> d.label,
                                       confidence |-> d.conf])
                              ELSE acc.findings,
                 raised |-> FALSE])

\* Lines 101-110: the loop over frames_to_process; predict is called with no
\* handler around it, so its exception leaves the function.
RECURSIVE DetectorLoop(_, _, _, _)
DetectorLoop(fs, i, yolo_conf, acc) ==
    IF i > Len(fs) THEN acc
    ELSE IF fs[i].file.predict.raises
         THEN [acc EXCEPT !.raised = TRUE]
         ELSE DetectorLoop(fs, i + 1, yolo_conf,
                 FoldDets(fs[i].file.predict.dets, 1, fs[i].frame, yolo_conf, acc))

RECURSIVE SumCounts(_, _)
SumCounts(counts, labels) ==
    IF labels = {} THEN 0
    ELSE LET l == CHOOSE x \in labels : TRUE
         IN counts[l] + SumCounts(counts, labels \ {l})

\* Lines 118-122.
DetectorSeverityStrict(total, top_conf) ==
    IF total > 6 \/ top_conf > 75 THEN "high"
    ELSE IF total > 3 \/ top_conf > 60 THEN "medium"
    ELSE "low"
DetectorSeverity(total, top_conf) ==
    IF total >= 6 \/ top_conf >= 75 THEN "high"
    ELSE IF total >= 3 \/ top_conf >= 60 THEN "medium"
    ELSE "low"

\* Lines 155-159, the mean score against 0.62 and 0.42 (sum in ten-thousandths
\* over n frames).
HeuristicSeverity(sum, n) ==
    IF sum >= 6200 * n THEN "high"
    ELSE IF sum >= 4200 * n THEN "medium"
    ELSE "low"

\* Lines 140-147: the frames cv2.imread can decode, with their signals.
RECURSIVE PerFrame(_, _)
PerFrame(fs, i) ==
    IF i > Len(fs) THEN <<>>
    ELSE IF fs[i].file.image.decodable
         THEN <<[frame |-> fs[i].frame, signals |-> HeuristicDamageSignals(fs[i].file.image)]>>
                  \o PerFrame(fs, i + 1)
         ELSE PerFrame(fs, i + 1)

RECURSIVE SumWeighted(_, _)
SumWeighted(pf, i) ==
    IF i > Len(pf) THEN 0 ELSE WeightedSignals(pf[i].signals) + SumWeighted(pf, i + 1)

\* sorted(..., reverse=True): descending by weighted score, equal scores in
\* their original order.
RECURSIVE InsertDesc(_, _)
InsertDesc(sorted, x) ==
    IF sorted = <<>> THEN <<x>>
    ELSE IF WeightedSignals(Head(sorted).signals) >= WeightedSignals(x.signals)
         THEN <<Head(sorted)>> \o InsertDesc(Tail(sorted), x)
         ELSE <<x>> \o sorted
RECURSIVE SortDesc(_, _)
SortDesc(pf, n) ==
    IF n = 0 THEN <<>> ELSE InsertDesc(SortDesc(pf, n - 1), pf[n])

NoDamage ==
    [returned |-> FALSE, raised |-> FALSE, ok |-> FALSE, method |-> "unset",
     severity |-> "unset", top_confidence |-> 0, suspected_total |-> 0, score_sum |-> 0,
     n_scored |-> 0, findings |-> <<>>]

\* Lines 136-178.
HeuristicResult(fs) ==
    LET pf == PerFrame(fs, 1)
        n == Max2(1, Len(pf))
        sum == SumWeighted(pf, 1)
    IN [NoDamage EXCEPT !.returned = TRUE, !.ok = TRUE, !.method = "heuristic",
                        !.severity = HeuristicSeverity(sum, n), !.score_sum = sum,
                        !.n_scored = n, !.findings = Head_n(SortDesc(pf, Len(pf)), NotableCap)]

\* Lines 96-134.
DetectorResult(fs, yolo_conf) ==
    LET acc == DetectorLoop(fs, 1, yolo_conf,
                   [label_counts |-> <<>>, top_conf |-> 0, findings |-> <<>>, raised |-> FALSE])
        suspects == {l \in DOMAIN acc.label_counts : IsSuspectLabel(l)}
        total == SumCounts(acc.label_counts, suspects)
    IN IF acc.raised
       THEN [NoDamage EXCEPT !.raised = TRUE]
       ELSE [NoDamage EXCEPT !.returned = TRUE, !.ok = TRUE, !.method = "yolo",
                             !.severity = DetectorSeverity(total, acc.top_conf),
                             !.top_confidence = acc.top_conf, !.suspected_total = total,
                             !.findings = Head_n(acc.findings, FindingsCap)]

run_damage_pipeline(in) ==
    LET existing == ExistingFrames(in.frames)
        frames_to_process == Head_n(existing, in.max_frames_to_process)
    IN IF existing = <<>>
       THEN [NoDamage EXCEPT !.returned = TRUE, !.method = "none"]
       ELSE IF UseYolo(in.detector)
            THEN DetectorResult(frames_to_process, in.yolo_conf)
            ELSE HeuristicResult(frames_to_process)

InitDamage ==
    /\ dmgIn \in DamageInputs
    /\ dmgOut = NoDamage

IdleDamage ==
    /\ dmgIn = NoDamageInput
    /\ dmgOut = NoDamage

RunDamagePipeline ==
    /\ dmgIn \in DamageInputs
    /\ dmgOut = NoDamage
    /\ dmgOut' = run_damage_pipeline(dmgIn)
    /\ UNCHANGED dmgIn
    /\ UNCHANGED notDmgVars

NextDamage == RunDamagePipeline

(***************************************************************************)
(* Engine Audio Analyzer: engine_audio.py                                   *)
(***************************************************************************)
SampleRate == 16000
MinClipSeconds == 3
MinWavBytes == 1000

\* What the ffmpeg command does once started: "absent" (subprocess.run raises
\* FileNotFoundError), "hangs" (never exits), "fails" (non-zero exit, nothing
\* written), "fails_partial" (non-zero exit, a partial file written),
\* "exits0_nofile" (exit 0 without an output file), "ok" (exit 0, file written).
ToolBehaviours == {"absent", "hangs", "fails", "fails_partial", "exits0_nofile", "ok"}

\* Numbers of samples in the transcoded waveform: under the 1000-byte file
\* check, just over it, one sample under three seconds, three seconds, ten.
SampleCounts == {400, 500, 47999, 48000, 160000}

\* Measured features in thousandths: band_high, roughness, clipping_ratio.
HighValues == {100, 250, 400}
RoughValues == {10, 30, 50}
ClippingValues == {0, 15, 30, 80}

Waveforms ==
    [samples : SampleCounts, sr : {SampleRate}, readable : BOOLEAN,
     band_high : HighValues, roughness : RoughValues, clipping_ratio : ClippingValues]

AudioInputs ==
    [vehicle_is_electric : BOOLEAN, source_exists : BOOLEAN, tool : ToolBehaviours,
     wav : Waveforms]

NoWaveform ==
    [samples |-> 0, sr |-> SampleRate, readable |-> FALSE, band_high |-> 0,
     roughness |-> 0, clipping_ratio |-> 0]
NoAudioInput ==
    [vehicle_is_electric |-> FALSE, source_exists |-> FALSE, tool |-> "unset",
     wav |-> NoWaveform]

AudioResult(ok, skipped, message, risk, keys, clip, score, hints) ==
    [ok |-> ok, skipped |-> skipped, message |-> message, risk_level |-> risk,
     signal_keys |-> keys, clipping_ratio |-> clip, risk_score |-> score, hints |-> hints]
NoAudioResult == AudioResult(FALSE, FALSE, "unset", "unset", {}, 0, 0, <<>>)

\* Lines 90-98.
SkippedElectric == AudioResult(TRUE, TRUE, "ev_skipped", "none", {}, 0, 0, <<>>)
\* Line 101.
SourceMissing == AudioResult(FALSE, FALSE, "video_not_found", "unknown", {}, 0, 0, <<>>)
\* Lines 108-115.
ExtractFailed ==
    AudioResult(FALSE, FALSE, "audio_not_extracted", "unknown", {}, 0, 0, <<"need_clear_audio_and_ffmpeg">>)
\* Lines 119-126.
ShortClip ==
    AudioResult(TRUE, FALSE, "audio_too_short", "unknown", {"duration_sec"}, 0, 0, <<"record_5_10_sec">>)

FullSignalKeys ==
    {"duration_sec", "rms", "peak", "clipping_ratio", "roughness", "band_low", "band_mid",
     "band_high", "risk_score"}

\* np.clip(x, 0, 1) of a value in thousandths.
Clip1000(x) == Max2(0, Min2(1000, x))

\* Lines 142-151: the risk score in hundred-thousandths.
RiskScore(w) ==
    LET s == Clip1000((w.band_high - 180) * 5) * 45
             + Clip1000((w.roughness - 20) * 50) * 35
             + Clip1000((w.clipping_ratio - 10) * 20) * 20
    IN Max2(0, Min2(100000, s))

\* Lines 153-157.
RiskLevel(score) ==
    IF score >= 65000 THEN "high"
    ELSE IF score >= 40000 THEN "medium"
    ELSE "low"

\* Lines 159-165.
RiskHints(w) ==
    (IF w.clipping_ratio > 20 THEN <<"clipping">> ELSE <<>>)
    \o (IF w.band_high > 300 THEN <<"high_frequency">> ELSE <<>>)
    \o (IF w.roughness > 35 THEN <<"rough">> ELSE <<>>)

\* Lines 128-184.
FullAnalysis(w) ==
    AudioResult(TRUE, FALSE, "analysis_done", RiskLevel(RiskScore(w)), FullSignalKeys,
                w.clipping_ratio, RiskScore(w), RiskHints(w))

\* Lines 90-103: what the entry checks decide.
EntryCheckExistsFirst(in) ==
    IF ~in.source_exists THEN "missing"
    ELSE IF in.vehicle_is_electric THEN "electric"
    ELSE "transcode"
EntryCheck(in) ==
    IF in.vehicle_is_electric THEN "electric"
    ELSE IF ~in.source_exists THEN "missing"
    ELSE "transcode"

\* Line 28: subprocess.run is given no timeout argument.
SubprocessTimeoutArmed == FALSE

\* How a started ffmpeg ends its subprocess.run call.
RunOutcomes(tool) ==
    IF tool = "hangs"
    THEN (IF SubprocessTimeoutArmed THEN {"TimeoutExpired"} ELSE {})
    ELSE {"exited"}

ToolWritesFile(tool) == tool \in {"ok", "fails_partial"}
ToolExitCode(tool) == IF tool \in {"ok", "exits0_nofile"} THEN 0 ELSE 1

\* The size of the file the command of lines 17-26 writes: mono 16-bit PCM in
\* a WAV container, a 44-byte header and two bytes per sample.
WavFileBytes(w) == 44 + 2 * w.samples

\* Line 29: returncode 0, the file exists and is larger than 1000 bytes.
ExtractedIgnoringExitCode(rc, fileExists, w) ==
    fileExists /\ WavFileBytes(w) > MinWavBytes
Extracted(rc, fileExists, w) ==
    rc = 0 /\ fileExists /\ WavFileBytes(w) > MinWavBytes

\* Line 118.
IsShortClipOneSecond(w) == w.samples < w.sr
IsShortClip(w) == w.samples < w.sr * MinClipSeconds

\* The temporary directory when its with-block is left, by return or by an
\* exception: TemporaryDirectory.__exit__ removes it and what it holds.
LeaveTempDirOnReturnOnly(fs, how) ==
    IF how = "return" THEN [tmpdir |-> FALSE, wav |-> FALSE] ELSE fs
LeaveTempDir(fs, how) == [tmpdir |-> FALSE, wav |-> FALSE]

NoAudioHist == [tmp_created |-> FALSE, spawned |-> FALSE, extracted |-> FALSE]

InitAudio ==
    /\ audIn \in AudioInputs
    /\ apc = "call"
    /\ audFs = [tmpdir |-> FALSE, wav |-> FALSE]
    /\ audRc = -1
    /\ audOut = NoAudioResult
    /\ audHist = NoAudioHist

IdleAudio ==
    /\ audIn = NoAudioInput
    /\ apc = "idle"
    /\ audFs = [tmpdir |-> FALSE, wav |-> FALSE]
    /\ audRc = -1
    /\ audOut = NoAudioResult
    /\ audHist = NoAudioHist

\* Lines 90-104: the two early returns, or the temporary directory is created.
AudioEnter ==
    /\ apc = "call"
    /\ LET d == EntryCheck(audIn)
       IN /\ apc' = IF d = "transcode" THEN "run_ffmpeg" ELSE "done"
          /\ audOut' = IF d = "electric" THEN SkippedElectric
                       ELSE IF d = "missing" THEN SourceMissing
                       ELSE audOut
          /\ audFs' = IF d = "transcode" THEN [audFs EXCEPT !.tmpdir = TRUE] ELSE audFs
          /\ audHist' = IF d = "transcode" THEN [audHist EXCEPT !.tmp_created = TRUE]
                        ELSE audHist
    /\ UNCHANGED <<audIn, audRc>>
    /\ UNCHANGED notAudVars

\* Lines 27-31, subprocess.run starting the command: a missing executable
\* raises at once and the handler returns False; otherwise the process runs.
FfmpegStart ==
    /\ apc = "run_ffmpeg"
    /\ IF audIn.tool = "absent"
       THEN /\ apc' = "after_extract"
            /\ UNCHANGED audHist
       ELSE /\ apc' = "wait_ffmpeg"
            /\ audHist' = [audHist EXCEPT !.spawned = TRUE]
    /\ UNCHANGED <<audIn, audFs, audRc, audOut>>
    /\ UNCHANGED notAudVars

\* Lines 28-29, subprocess.run returning: the process has exited (or the
\* timeout, when one is armed, has expired), and the result is tested.
FfmpegEnd ==
    /\ apc = "wait_ffmpeg"
    /\ \E outcome \in RunOutcomes(audIn.tool) :
         LET wrote == outcome = "exited" /\ ToolWritesFile(audIn.tool)
             rc == IF outcome = "exited" THEN ToolExitCode(audIn.tool) ELSE -1
         IN /\ audFs' = [audFs EXCEPT !.wav = wrote]
            /\ audRc' = rc
            /\ audHist' = [audHist EXCEPT !.extracted =
                               outcome = "exited" /\ Extracted(rc, wrote, audIn.wav)]
    /\ apc' = "after_extract"
    /\ UNCHANGED <<audIn, audOut>>
    /\ UNCHANGED notAudVars

\* Lines 107-184 and the end of the with-block: the failed extraction, the
\* waveform read (which may raise), the short clip, the full analysis.
AudioAnalyze ==
    /\ apc = "after_extract"
    /\ IF ~audHist.extracted
       THEN /\ audOut' = ExtractFailed
            /\ apc' = "done"
            /\ audFs' = LeaveTempDir(audFs, "return")
       ELSE IF ~audIn.wav.readable
            THEN /\ audOut' = audOut
                 /\ apc' = "raised"
                 /\ audFs' = LeaveTempDir(audFs, "raise")
            ELSE /\ audOut' = IF IsShortClip(audIn.wav) THEN ShortClip
                              ELSE FullAnalysis(audIn.wav)
                 /\ apc' = "done"
                 /\ audFs' = LeaveTempDir(audFs, "return")
    /\ UNCHANGED <<audIn, audRc, audHist>>
    /\ UNCHANGED notAudVars

NextAudio ==
    \/ AudioEnter
    \/ FfmpegStart
    \/ FfmpegEnd
    \/ AudioAnalyze

(***************************************************************************)
(* Narrative Generator: ai_commentary.py, ai_llm.py                         *)
(***************************************************************************)
NoCommentary == [present |-> FALSE, method |-> "absent", text |-> <<>>]

\* Text is a sequence of pieces. The reply of the LLM service is a sequence of
\* characters: a space, a newline, or a letter.
Whitespace == {" ", "\n"}
RawTexts == {<<>>, <<" ">>, <<"x">>, <<" ", "x", "\n">>}

\* str.strip().
RECURSIVE LStrip(_)
LStrip(t) == IF t # <<>> /\ Head(t) \in Whitespace THEN LStrip(Tail(t)) ELSE t
RECURSIVE RStrip(_)
RStrip(t) ==
    IF t # <<>> /\ t[Len(t)] \in Whitespace THEN RStrip(SubSeq(t, 1, Len(t) - 1)) ELSE t
Strip(t) == RStrip(LStrip(t))

\* "\n".join(texts).
RECURSIVE JoinLines(_)
JoinLines(texts) ==
    IF texts = <<>> THEN <<>>
    ELSE IF Len(texts) = 1 THEN texts[1]
    ELSE texts[1] \o <<"\n">> \o JoinLines(Tail(texts))

\* Optional[str]: None, or a string.
None == [some |-> FALSE, text |-> <<>>]
Some(t) == [some |-> TRUE, text |-> t]
\* t or None.
OrNone(t) == IF t = <<>> THEN None ELSE Some(t)

\* The "output_text" member of the reply: absent, not a string, or a string.
OutputTexts ==
    [kind : {"absent", "nonstring"}, text : {<<>>}] \cup [kind : {"str"}, text : RawTexts]

\* One entry of an item's "content" list.
Content(type, text_is_str, text) == [type |-> type, text_is_str |-> text_is_str, text |-> text]
\* One item of the "output" list: a dict with a content list, or something else.
Item(is_dict, content) == [is_dict |-> is_dict, content |-> content]

\* The "output" member of the reply: absent, not a list, or a list of items.
OutputLists ==
    {<<>>,
     <<Item(TRUE, <<Content("output_text", TRUE, <<"x">>)>>)>>,
     <<Item(TRUE, <<Content("reasoning", TRUE, <<"x">>)>>)>>,
     <<Item(TRUE, <<Content("output_text", FALSE, <<>>)>>)>>,
     <<Item(TRUE, <<Content("output_text", TRUE, <<" ">>)>>)>>,
     <<Item(TRUE, <<Content("output_text", TRUE, <<"x">>)>>),
       Item(TRUE, <<Content("output_text", TRUE, <<"x">>)>>)>>,
     <<Item(FALSE, <<>>)>>}
Outputs ==
    [kind : {"absent", "nonlist"}, items : {<<>>}] \cup [kind : {"list"}, items : OutputLists]

\* The body of the HTTP response: not JSON, a JSON array, or a JSON object.
Bodies ==
    [kind : {"not_json", "array"},
     output_text : {[kind |-> "absent", text |-> <<>>]},
     output : {[kind |-> "absent", items |-> <<>>]}]
    \cup [kind : {"dict"}, output_text : OutputTexts, output : Outputs]

\* OPENAI_API_KEY: unset or empty, blank, set.
ApiKeys == {<<>>, <<" ">>, <<"x">>}
\* requests.post: raises Timeout after timeout_sec, raises ConnectionError, or
\* gives a response.
Transports == {"timeout", "connection_error", "response"}
StatusCodes == {200, 299, 300, 500}
LlmEnvs ==
    [api_key : ApiKeys, transport : Transports, status_code : StatusCodes, body : Bodies]
NoLlmEnv ==
    [api_key |-> <<>>, transport |-> "connection_error", status_code |-> 500,
     body |-> [kind |-> "not_json", output_text |-> [kind |-> "absent", text |-> <<>>],
               output |-> [kind |-> "absent", items |-> <<>>]]]

\* ai_llm.py lines 46-51: the texts of the output_text entries of one item.
RECURSIVE ContentTexts(_)
ContentTexts(content) ==
    IF content = <<>> THEN <<>>
    ELSE (IF Head(content).type = "output_text" /\ Head(content).text_is_str
          THEN <<Head(content).text>> ELSE <<>>)
         \o ContentTexts(Tail(content))
RECURSIVE ItemTexts(_)
ItemTexts(items) ==
    IF items = <<>> THEN <<>> ELSE ContentTexts(Head(items).content) \o ItemTexts(Tail(items))

\* ai_llm.py lines 38-54: the text found in the reply, None when there is none
\* or when looking for it raises (r.json() on a body that is not JSON, .get on
\* something that is not a dict).
ExtractText(data) ==
    IF data.kind # "dict" THEN None
    ELSE IF data.output_text.kind = "str" THEN OrNone(Strip(data.output_text.text))
    ELSE IF data.output.kind = "list" /\ data.output.items # <<>>
         THEN IF \E i \in 1..Len(data.output.items) : ~data.output.items[i].is_dict
              THEN None
              ELSE OrNone(Strip(JoinLines(ItemTexts(data.output.items))))
    ELSE None

\* ai_llm.py line 36.
StatusRejectedNever(status_code) == FALSE
StatusRejected(status_code) == status_code >= 300

\* call_llm_commentary, ai_llm.py lines 10-56.
call_llm_commentary(env) ==
    IF Strip(env.api_key) = <<>> THEN None
    ELSE IF env.transport # "response" THEN None
    ELSE IF StatusRejected(env.status_code) THEN None
    ELSE ExtractText(env.body)

\* The closing line of the fallback report (ai_commentary.py line 127), written
\* without diacritics.
Disclaimer == "Not: Bu rapor ekspertiz yerine gecmez; on bilgilendirme amaclidir."

\* str.upper() of the severity and level words.
Upper(w) ==
    CASE w = "low" -> "LOW"
      [] w = "medium" -> "MEDIUM"
      [] w = "high" -> "HIGH"
      [] w = "unknown" -> "UNKNOWN"
      [] w = "none" -> "NONE"
      [] w = "dusuk" -> "DUSUK"
      [] w = "orta" -> "ORTA"
      [] w = "yuksek" -> "YUKSEK"

\* The damage report as the commentary reads it: method, summary.severity
\* ("unknown" when the summary has none), the number of summary.suspected_labels
\* and whether summary.signals_avg is there.
NarDamage(method, severity, n_labels, has_signals) ==
    [method |-> method, severity |-> severity, n_labels |-> n_labels, has_signals |-> has_signals]
NarDamages ==
    {NarDamage("yolo", "high", 6, FALSE), NarDamage("yolo", "low", 0, FALSE),
     NarDamage("heuristic", "medium", 0, TRUE), NarDamage("none", "unknown", 0, FALSE)}

\* The engine_audio report as the commentary reads it: None, the EV skip, the
\* failed extraction with its hint, an analysed clip with three hints.
NarAudio(present, ok, skipped, risk_level, hints) ==
    [present |-> present, ok |-> ok, skipped |-> skipped, risk_level |-> risk_level,
     hints |-> hints]
NarAudios ==
    {NarAudio(FALSE, FALSE, FALSE, "unknown", <<>>),
     NarAudio(TRUE, TRUE, TRUE, "none", <<>>),
     NarAudio(TRUE, FALSE, FALSE, "unknown", <<"need_clear_audio_and_ffmpeg">>),
     NarAudio(TRUE, TRUE, FALSE, "high", <<"clipping", "high_frequency", "rough">>)}

\* The confidence argument: None, or a report.
NarConfidences ==
    {[present |-> FALSE, confidence_level |-> "bilinmiyor"],
     [present |-> TRUE, confidence_level |-> "orta"]}

\* The hints of the video quality and coverage reports.
NarHints ==
    {[v_hints |-> <<>>, c_hints |-> <<>>],
     [v_hints |-> <<"v_short", "v_dark", "v_blurry", "v_shaky">>, c_hints |-> <<"c_low">>]}

NarInputs ==
    [damage : NarDamages, hints : NarHints, engine_audio : NarAudios,
     confidence : NarConfidences, llm_env : LlmEnvs]
NoNarInput ==
    [damage |-> NarDamage("none", "unknown", 0, FALSE),
     hints |-> [v_hints |-> <<>>, c_hints |-> <<>>],
     engine_audio |-> NarAudio(FALSE, FALSE, FALSE, "unknown", <<>>),
     confidence |-> [present |-> FALSE, confidence_level |-> "bilinmiyor"],
     llm_env |-> NoLlmEnv]
NoNarOutput == [returned |-> FALSE, ok |-> FALSE, method |-> "unset", text |-> <<>>]

\* _bulletify, ai_commentary.py lines 9-12: blank items dropped, at most max_n
\* kept, one "- item" line each, or the no-warning line.
RECURSIVE BulletLines(_)
BulletLines(items) ==
    IF items = <<>> THEN <<>>
    ELSE IF Len(items) = 1 THEN <<"- ", items[1]>>
    ELSE <<"- ", items[1], "\n">> \o BulletLines(Tail(items))
Bulletify(items, max_n) ==
    LET kept == Head_n(SelectSeq(items, LAMBDA x : x \notin {"", " "}), max_n)
    IN IF kept # <<>> THEN BulletLines(kept) ELSE <<"- (Belirgin uyari yok)">>

\* ai_commentary.py lines 36-38.
AudioLevel(audio) ==
    IF audio.present /\ audio.ok /\ ~audio.skipped THEN Some(<<audio.risk_level>>) ELSE None

\* ai_commentary.py lines 87-128: the deterministic report.
FallbackText(in) ==
    LET audio_level == AudioLevel(in.engine_audio)
        parts ==
            <<"Bu on analiz ... Gorsel hasar sinyali seviyesi:", Upper(in.damage.severity)>>
            \o (IF audio_level.some
                THEN <<"\n", "Motor sesi risk seviyesi:", Upper(audio_level.text[1])>>
                ELSE <<>>)
            \o (IF in.confidence.present
                THEN <<"\n", "Rapor guveni:", Upper(in.confidence.confidence_level), "score">>
                ELSE <<>>)
        risk_bullets ==
            (IF in.damage.method = "yolo"
             THEN (IF in.damage.n_labels > 0 THEN <<"Modelin isaretledigi olasi bolgeler">> ELSE <<>>)
             ELSE (IF in.damage.has_signals THEN <<"Cizik / gocuk / boya sinyalleri">> ELSE <<>>))
            \o Head_n(in.hints.v_hints, 3)
            \o Head_n(in.hints.c_hints, 3)
            \o Head_n(in.engine_audio.hints, 2)
        next_steps == <<"step_daylight_check", "step_idle_recording", "step_professional_inspection">>
    IN parts
       \o <<"\n\n", "**Tespit Edilen Risk Sinyalleri**", "\n">>
       \o Bulletify(risk_bullets, 8)
       \o <<"\n\n", "**Onerilen Sonraki Adimlar**", "\n">>
       \o Bulletify(next_steps, 6)
       \o <<"\n\n", Disclaimer>>

\* generate_human_commentary, ai_commentary.py lines 15-129.
generate_human_commentary(in) ==
    LET llm == call_llm_commentary(in.llm_env)
    IN IF llm.some /\ llm.text # <<>>
       THEN [returned |-> TRUE, ok |-> TRUE, method |-> "llm", text |-> Strip(llm.text)]
       ELSE [returned |-> TRUE, ok |-> TRUE, method |-> "fallback", text |-> FallbackText(in)]

InitNarrative ==
    /\ narIn \in NarInputs
    /\ narOut = NoNarOutput

IdleNarrative ==
    /\ narIn = NoNarInput
    /\ narOut = NoNarOutput

GenerateHumanCommentary ==
    /\ ~narOut.returned
    /\ narIn \in NarInputs
    /\ narOut' = generate_human_commentary(narIn)
    /\ UNCHANGED narIn
    /\ UNCHANGED notNarVars

NextNarrative == GenerateHumanCommentary

(***************************************************************************)
(* Tamper/Repair Heuristics: bolt_tamper.py, paint_tamper.py                *)
(*                                                                          *)
(* Scores are integers in twenty-thousandths (1.0 is 20000), so that the     *)
(* mean of two region scores is exact. Each measured feature is given in    *)
(* hundredths of the value its formula divides it by: 100 is where          *)
(* min(1.0, feature / divisor) starts to clamp.                             *)
(***************************************************************************)
MaxContours == 2
MaxBoltRegions == 8
TopRegions == 2
ScoreOne == 20000

\* The gray image's shape.
ImageHeight == 100
ImageWidth == 100

\* One external contour of the edge map: its bounding rectangle, and the
\* tool-mark energy and edge density measured on the padded region around it.
Contour(x, y, bw, bh, energy, edge_density) ==
    [x |-> x, y |-> y, bw |-> bw, bh |-> bh, energy |-> energy, edge_density |-> edge_density]

\* Bounding rectangles on both sides of every filter of lines 27 and 31:
\* area 100 and 120 (the lower limit), 1200 and 1240 (12% of the image),
\* aspect ratio 0.5, 0.55, 1.8 and 2.0.
ContourShapes ==
    {<<10, 10>>, <<12, 10>>, <<40, 30>>, <<40, 31>>, <<10, 20>>, <<11, 20>>, <<18, 10>>,
     <<20, 10>>}
\* Measured features on both sides of the verdict breakpoints and of the clamp.
RegionFeatures ==
    {<<0, 0>>, <<61, 61>>, <<62, 62>>, <<79, 79>>, <<80, 80>>, <<130, 130>>, <<100, 40>>}
Contours ==
    {Contour(5, 5, sh[1], sh[2], 80, 80) : sh \in ContourShapes}
    \cup {Contour(30, 30, 12, 10, f[1], f[2]) : f \in RegionFeatures}

\* The panel features of _panel_consistency_features: a_std, b_std, hf_energy,
\* edge_vs_center (which may be negative).
PaintFeatures(a_std, b_std, hf_energy, edge_vs_center) ==
    [a_std |-> a_std, b_std |-> b_std, hf_energy |-> hf_energy,
     edge_vs_center |-> edge_vs_center]
PaintFeatureSets ==
    {PaintFeatures(v, v, v, v) : v \in {0, 61, 62, 77, 78, 79, 80, 100, 130}}
    \cup {PaintFeatures(100, 100, 100, -50), PaintFeatures(130, 0, 130, 40)}

\* The image file: whether cv2.imread can read it, the contours of its edge
\* map, its panel features.
TamperImage(readable, contours, paint) ==
    [readable |-> readable, contours |-> contours, paint |-> paint]
TamperImages ==
    {TamperImage(r, cs, PaintFeatures(0, 0, 0, 0)) :
        r \in BOOLEAN, cs \in SeqsUpTo(Contours, MaxContours)}
    \cup {TamperImage(r, <<>>, pf) : r \in BOOLEAN, pf \in PaintFeatureSets}
NoTamperImage == TamperImage(FALSE, <<>>, PaintFeatures(0, 0, 0, 0))

NoVerdict ==
    [returned |-> FALSE, raised |-> FALSE, label |-> "unset", score |-> 0, regions |-> <<>>]
Verdict(label, score, regions) ==
    [returned |-> TRUE, raised |-> FALSE, label |-> label, score |-> score, regions |-> regions]
\* _safe_read raising ValueError.
CannotReadImage == [NoVerdict EXCEPT !.raised = TRUE]

\* bolt_tamper.py line 27: the area filter.
AreaAcceptedAlways(c) == TRUE
AreaAccepted(c) ==
    LET area == c.bw * c.bh
    IN ~(area < 120 \/ area * 100 > ImageHeight * ImageWidth * 12)

\* Lines 29-31: 0.55 <= bw / max(1, bh) <= 1.8.
AspectAccepted(c) ==
    LET d == Max2(1, c.bh)
    IN 55 * d <= 100 * c.bw /\ 10 * c.bw <= 18 * d

\* sorted(boxes, key=area, reverse=True).
RECURSIVE InsertByArea(_, _)
InsertByArea(sorted, c) ==
    IF sorted = <<>> THEN <<c>>
    ELSE IF Head(sorted).bw * Head(sorted).bh >= c.bw * c.bh
         THEN <<Head(sorted)>> \o InsertByArea(Tail(sorted), c)
         ELSE <<c>> \o sorted
RECURSIVE SortByArea(_, _)
SortByArea(cs, n) == IF n = 0 THEN <<>> ELSE InsertByArea(SortByArea(cs, n - 1), cs[n])

\* _detect_bolt_like_regions, lines 12-35.
DetectBoltLikeRegions(contours) ==
    LET boxes == SelectSeq(contours, LAMBDA c : AreaAccepted(c) /\ AspectAccepted(c))
    IN Head_n(SortByArea(boxes, Len(boxes)), MaxBoltRegions)

\* _tool_mark_score and _paint_crack_score, in hundredths.
ToolMarkScore(c) == Min2(100, c.energy)
PaintCrackScore(c) == Min2(100, c.edge_density)

\* Lines 89-90: 0.60 * tool + 0.40 * crack, clamped to [0,1].
RegionScore(c) ==
    Max2(0, Min2(ScoreOne, 2 * (60 * ToolMarkScore(c) + 40 * PaintCrackScore(c))))

\* Lines 78-98: the report of one region, its box padded and cut to the image.
BoltReport(c) ==
    LET pad == Max2(c.bw, c.bh) \div 4
    IN [box |-> <<Max2(0, c.x - pad), Max2(0, c.y - pad),
                  Min2(ImageWidth, c.x + c.bw + pad), Min2(ImageHeight, c.y + c.bh + pad)>>,
        tool_mark |-> ToolMarkScore(c), paint_crack |-> PaintCrackScore(c),
        score |-> RegionScore(c)]

\* sorted(scores, reverse=True).
RECURSIVE InsertScoreDesc(_, _)
InsertScoreDesc(sorted, x) ==
    IF sorted = <<>> THEN <<x>>
    ELSE IF Head(sorted) >= x THEN <<Head(sorted)>> \o InsertScoreDesc(Tail(sorted), x)
    ELSE <<x>> \o sorted
RECURSIVE SortScoresDesc(_, _)
SortScoresDesc(q, n) ==
    IF n = 0 THEN <<>> ELSE InsertScoreDesc(SortScoresDesc(q, n - 1), q[n])

RECURSIVE SumSeq(_)
SumSeq(q) == IF q = <<>> THEN 0 ELSE Head(q) + SumSeq(Tail(q))

\* Lines 101-102: the mean of the two strongest region scores.
FinalBoltScore(reports) ==
    LET scores == [i \in 1..Len(reports) |-> reports[i].score]
        top == Head_n(SortScoresDesc(scores, Len(scores)), TopRegions)
    IN SumSeq(top) \div Max2(1, Len(top))

\* Lines 104-112.
BoltLabel(final) ==
    IF final >= 16000 THEN "DETECTED"
    ELSE IF final >= 12400 THEN "SUSPECTED"
    ELSE "INSUFFICIENT_EVIDENCE"

\* bolt_tamper_assessment, lines 54-114.
bolt_tamper_assessment(img) ==
    IF ~img.readable THEN CannotReadImage
    ELSE LET boxes == DetectBoltLikeRegions(img.contours)
             reports == [i \in 1..Len(boxes) |-> BoltReport(boxes[i])]
             final == FinalBoltScore(reports)
         IN IF boxes = <<>> THEN Verdict("INSUFFICIENT_EVIDENCE", 0, <<>>)
            ELSE Verdict(BoltLabel(final), final, reports)

\* paint_tamper.py lines 68-74.
PaintScore(f) ==
    LET sum == 22 * Min2(100, f.a_std) + 22 * Min2(100, f.b_std)
               + 30 * Min2(100, f.hf_energy)
               + 26 * Min2(100, Max2(0, f.edge_vs_center))
    IN Max2(0, Min2(ScoreOne, 2 * sum))

\* Lines 77-81.
PaintLabel(score) ==
    IF score >= 15600 THEN "DETECTED"
    ELSE IF score >= 12400 THEN "SUSPECTED"
    ELSE "INSUFFICIENT_EVIDENCE"

\* paint_local_repair_score, lines 55-81.
paint_local_repair_score(img) ==
    IF ~img.readable THEN CannotReadImage
    ELSE Verdict(PaintLabel(PaintScore(img.paint)), PaintScore(img.paint), <<>>)

InitTamper ==
    /\ tamIn \in TamperImages
    /\ boltOut = NoVerdict
    /\ paintOut = NoVerdict

IdleTamper ==
    /\ tamIn = NoTamperImage
    /\ boltOut = [NoVerdict EXCEPT !.label = "idle"]
    /\ paintOut = [NoVerdict EXCEPT !.label = "idle"]

BoltTamperAssessment ==
    /\ boltOut = NoVerdict
    /\ boltOut' = bolt_tamper_assessment(tamIn)
    /\ UNCHANGED <<tamIn, paintOut>>
    /\ UNCHANGED notTamVars

PaintLocalRepairScore ==
    /\ paintOut = NoVerdict
    /\ paintOut' = paint_local_repair_score(tamIn)
    /\ UNCHANGED <<tamIn, boltOut>>
    /\ UNCHANGED notTamVars

NextTamper ==
    \/ BoltTamperAssessment
    \/ PaintLocalRepairScore

(***************************************************************************)
(* Coverage Estimator: coverage_check.py                                    *)
(*                                                                          *)
(* A decoded frame is given by what each grid cell shows: the percentage of *)
(* the cell's pixels that are bright. Between two frames the thresholded,   *)
(* median-filtered difference of a cell is non-zero on the percentage of    *)
(* pixels by which the two differ. coverage_ratio is in hundredths, rounded *)
(* down; every breakpoint it is compared with is a whole number of          *)
(* hundredths, so no comparison changes.                                    *)
(***************************************************************************)
MaxCovFrames == 6
Grid == 6
MinCoverageFrames == 6
Cells == 1..(Grid * Grid)

Still == [c \in Cells |-> 0]
StillNoisy == [c \in Cells |-> 3]
Side == [c \in Cells |-> IF c <= 12 THEN 50 ELSE 0]
Far == [c \in Cells |-> 100]
Scenes == {Still, StillNoisy, Side, Far}

\* A frame path: the file exists or not, cv2.imread decodes it or not.
CovFrame(exists, decodable, scene) ==
    [exists |-> exists, decodable |-> decodable, scene |-> scene]
CovFrames ==
    {CovFrame(FALSE, FALSE, Still), CovFrame(TRUE, FALSE, Still)}
    \cup {CovFrame(TRUE, TRUE, sc) : sc \in Scenes}

NoCoverage ==
    [returned |-> FALSE, ok |-> FALSE, coverage_ratio |-> 0, message |-> "unset",
     hints |-> <<>>, decoded |-> 0]

\* Lines 34-36 and 51: the share of the cell's pixels that changed, in percent.
ChangedPercent(prev, gray, c) ==
    IF prev[c] >= gray[c] THEN prev[c] - gray[c] ELSE gray[c] - prev[c]
\* Line 51: float(np.mean(cell > 0)) > 0.03.
CellMoved(prev, gray, c) == ChangedPercent(prev, gray, c) > 3

\* Lines 26-54: the loop over the existing frames; acc holds prev (with
\* has_prev false while it is None), the visit counts and the frames decoded.
RECURSIVE CoverageLoop(_, _, _)
CoverageLoop(fs, i, acc) ==
    IF i > Len(fs) THEN acc
    ELSE IF ~fs[i].decodable THEN CoverageLoop(fs, i + 1, acc)
    ELSE CoverageLoop(fs, i + 1,
            [has_prev |-> TRUE,
             prev |-> fs[i].scene,
             visited |-> [c \in Cells |->
                            IF acc.has_prev /\ CellMoved(acc.prev, fs[i].scene, c)
                            THEN acc.visited[c] + 1 ELSE acc.visited[c]],
             decoded |-> acc.decoded + 1])

\* Lines 69-75.
CoverageHints(num, den) ==
    IF num * 100 < 45 * den THEN <<"coverage_low_360", "coverage_low_slow_down">>
    ELSE IF num * 100 < 65 * den THEN <<"coverage_medium">>
    ELSE <<"coverage_good">>

\* estimate_coverage, lines 11-82.
estimate_coverage(frame_paths) ==
    LET fs == SelectSeq(frame_paths, LAMBDA f : f.exists)
        acc == CoverageLoop(fs, 1,
                   [has_prev |-> FALSE, prev |-> Still, visited |-> [c \in Cells |-> 0],
                    decoded |-> 0])
        n_visited == Cardinality({c \in Cells : acc.visited[c] > 0})
    IN IF Len(fs) < MinCoverageFrames
       THEN [NoCoverage EXCEPT !.returned = TRUE, !.message = "not_enough_frames",
                               !.hints = <<"wider_angle_walk_around">>]
       ELSE IF n_visited = 0
       THEN [NoCoverage EXCEPT !.returned = TRUE, !.ok = TRUE, !.coverage_ratio = 20,
                               !.message = "coverage_looks_low",
                               !.hints = <<"walk_around_360">>, !.decoded = acc.decoded]
       ELSE [NoCoverage EXCEPT !.returned = TRUE, !.ok = TRUE,
                               !.coverage_ratio = (n_visited * 100) \div (Grid * Grid),
                               !.message = "coverage_done",
                               !.hints = CoverageHints(n_visited, Grid * Grid),
                               !.decoded = acc.decoded]

InitCoverage ==
    /\ covIn \in SeqsUpTo(CovFrames, MaxCovFrames)
    /\ covOut = NoCoverage

IdleCoverage ==
    /\ covIn = <<>>
    /\ covOut = [NoCoverage EXCEPT !.message = "idle"]

EstimateCoverage ==
    /\ covOut = NoCoverage
    /\ covOut' = estimate_coverage(covIn)
    /\ UNCHANGED covIn
    /\ UNCHANGED notCovVars

NextCoverage == EstimateCoverage

(***************************************************************************)
(* Capture Quality Gate: video_quality.py                                   *)
(*                                                                          *)
(* The statistics of the sampled frames (Laplacian variance, gray level,    *)
(* optical-flow shake) are given as measured; shake is in tenths of a       *)
(* pixel. A video from which no frame can be read has no samples, and every *)
(* statistic is then 0.0.                                                   *)
(***************************************************************************)
MinDurationSec == 10
MinWidth == 720
MinHeight == 720

\* The gray-level statistics of the samples: mean, 10th and 90th percentile.
\* At least 90% of the samples lie at or above the 10th percentile and at or
\* below the 90th, which bounds the mean from both sides.
Exposures ==
    {ex \in [mean : {59, 60, 200, 201}, p10 : {30, 160, 161}, p90 : {89, 90, 220}] :
        /\ ex.p10 <= ex.p90
        /\ 10 * ex.mean >= 9 * ex.p10
        /\ 10 * ex.mean <= 9 * ex.p90 + 255}

\* The video file: missing, not openable by cv2.VideoCapture, or opened; the
\* container's metadata; whether cap.read() yields any frame; the statistics.
Videos ==
    [file : {"missing", "unopenable", "video"},
     fps : {0, 30}, frame_count : {0, 299, 300},
     width : {0, 719, 720}, height : {719, 720},
     has_frames : BOOLEAN,
     exposure : Exposures,
     blur_mean : {79, 80}, blur_p10 : {39, 40},
     shake : {80, 81}]
NoVideo ==
    [file |-> "unset", fps |-> 0, frame_count |-> 0, width |-> 0, height |-> 0,
     has_frames |-> FALSE, exposure |-> [mean |-> 0, p10 |-> 0, p90 |-> 0],
     blur_mean |-> 0, blur_p10 |-> 0, shake |-> 0]

NoVideoQuality ==
    [returned |-> FALSE, ok |-> FALSE, message |-> "unset", flags |-> {}, hints |-> <<>>]

\* Lines 136-158 and 162-172: too_short and too_low_res set, one hint.
VideoMissing ==
    [returned |-> TRUE, ok |-> FALSE, message |-> "video_not_found",
     flags |-> {"too_short", "too_low_res"}, hints |-> <<"file_missing_or_bad_path">>]
VideoUnopenable ==
    [returned |-> TRUE, ok |-> FALSE, message |-> "video_not_opened",
     flags |-> {"too_short", "too_low_res"}, hints |-> <<"retry_with_other_device">>]

\* Lines 178 and 216: duration = frame_count / fps when both are non-zero, else
\* 0.0; too_short = duration < min_duration_sec.
TooShort(v) ==
    IF v.fps # 0 /\ v.frame_count # 0 THEN v.frame_count < MinDurationSec * v.fps ELSE TRUE

\* Lines 209-214: the statistics, 0.0 when nothing was sampled.
Sampled(v, x) == IF v.has_frames THEN x ELSE 0

\* Lines 216-227: the six flags.
RaisedFlags(v) ==
    {f \in QualityFlags :
        \/ f = "too_short" /\ TooShort(v)
        \/ f = "too_low_res" /\ (v.width < MinWidth \/ v.height < MinHeight)
        \/ f = "too_dark"
              /\ (Sampled(v, v.exposure.mean) < 60 \/ Sampled(v, v.exposure.p90) < 90)
        \/ f = "too_bright"
              /\ (Sampled(v, v.exposure.mean) > 200 \/ Sampled(v, v.exposure.p10) > 160)
        \/ f = "too_blurry"
              /\ (Sampled(v, v.blur_mean) < 80 \/ Sampled(v, v.blur_p10) < 40)
        \/ f = "too_shaky" /\ Sampled(v, v.shake) > 80}

\* The order in which lines 230-241 test the flags.
FlagOrder == <<"too_short", "too_low_res", "too_dark", "too_bright", "too_blurry", "too_shaky">>
AllButLast(q) == SubSeq(q, 1, Len(q) - 1)

\* Lines 229-241: one hint for each raised flag, named here by its flag.
QualityHintsWithoutShake(flags) == SelectSeq(AllButLast(FlagOrder), LAMBDA f : f \in flags)
QualityHints(flags) == SelectSeq(FlagOrder, LAMBDA f : f \in flags)

\* Line 243.
VideoOkIgnoringShort(flags) ==
    ~("too_low_res" \in flags
      \/ ("too_dark" \in flags /\ "too_bright" \in flags)
      \/ "too_blurry" \in flags)
VideoOk(flags) ==
    ~("too_short" \in flags
      \/ "too_low_res" \in flags
      \/ ("too_dark" \in flags /\ "too_bright" \in flags)
      \/ "too_blurry" \in flags)

\* analyze_video_quality, lines 123-268.
analyze_video_quality(v) ==
    IF v.file = "missing" THEN VideoMissing
    ELSE IF v.file = "unopenable" THEN VideoUnopenable
    ELSE LET flags == RaisedFlags(v)
         IN [returned |-> TRUE, ok |-> VideoOk(flags),
             message |-> IF VideoOk(flags) THEN "quality_sufficient" ELSE "quality_may_reduce_accuracy",
             flags |-> flags, hints |-> QualityHints(flags)]

InitVideoQuality ==
    /\ vqIn \in Videos
    /\ vqOut = NoVideoQuality

IdleVideoQuality ==
    /\ vqIn = NoVideo
    /\ vqOut = NoVideoQuality

AnalyzeVideoQuality ==
    /\ vqIn \in Videos
    /\ ~vqOut.returned
    /\ vqOut' = analyze_video_quality(vqIn)
    /\ UNCHANGED vqIn
    /\ UNCHANGED notVqVars

NextVideoQuality == AnalyzeVideoQuality

(***************************************************************************)
(* Frame Sampler: frame_extractor.py                                        *)
(***************************************************************************)
MaxVideoFrames == 20
MinFramesForSuccess == 8
DefaultMaxFrames == 36
TargetLongSide == 1280
FallbackFps == 25
ShortClipStride == 10

\* The video: the file (missing, not openable, opened), the container's fps
\* and frame count, the number of frames cap.read() actually yields, the frame
\* size; min_gap_sec in tenths of a second (0.4 by default); the output directory: writable, read-only (cv2.imwrite returns False),
\* or impossible to create (os.makedirs raises); max_frames.
ExtractInputs ==
    [file : {"missing", "unopenable", "video"},
     fps : {0, 2, 4, 5},
     frame_count : {0, 2, 10, MaxVideoFrames},
     min_gap_tenths : {4, 10},
     readable : {0, 7, 8, 10, MaxVideoFrames},
     shape : {<<1920, 1080>>, <<640, 480>>},
     out_dir : {"writable", "read_only", "uncreatable"},
     max_frames : {2, 9, DefaultMaxFrames}]
NoExtractInput ==
    [file |-> "unset", fps |-> 0, frame_count |-> 0, min_gap_tenths |-> 0, readable |-> 0,
     shape |-> <<0, 0>>, out_dir |-> "unset", max_frames |-> 0]

NoExtraction == [returned |-> FALSE, ok |-> FALSE, frames |-> <<>>, count |-> 0, message |-> ""]
Extraction(ok, frames, message) ==
    [returned |-> TRUE, ok |-> ok, frames |-> frames, count |-> Len(frames), message |-> message]

\* Lines 42-47: the fps used, 25.0 when the container gives no fps or no count.
EffectiveFps(in) == IF in.fps <= 0 \/ in.frame_count <= 0 THEN FallbackFps ELSE in.fps

\* Lines 49 and 52: duration <= 0.1 with duration = frame_count / fps, or 0.0.
IsShortDuration(in) == in.frame_count = 0 \/ 10 * in.frame_count <= EffectiveFps(in)

\* Line 57: gap_frames = max(1, int(min_gap_sec * fps)); int() truncates.
GapFrames(in) == Max2(1, (in.min_gap_tenths * EffectiveFps(in)) \div 10)

\* Lines 53 and 58-59.
Stride(in) ==
    IF IsShortDuration(in) THEN ShortClipStride
    ELSE Max2(GapFrames(in), Max2(1, in.frame_count \div in.max_frames))

\* Lines 52-60 and 63: whether index i is in idx_set.
IsSampled(in, i) ==
    IF IsShortDuration(in)
    THEN i % ShortClipStride = 0 /\ i < in.max_frames * ShortClipStride
    ELSE i % Stride(in) = 0 /\ i < in.frame_count /\ i \div Stride(in) < in.max_frames

\* Lines 74-81: the size of the still that is written.
ResizedShape(shape) ==
    LET long_side == Max2(shape[1], shape[2])
    IN IF long_side > TargetLongSide
       THEN <<(shape[1] * TargetLongSide) \div long_side, (shape[2] * TargetLongSide) \div long_side>>
       ELSE shape

\* Line 85: cv2.imwrite, whose result the code does not look at.
WriteSucceeds(out_dir) == out_dir = "writable"

\* Line 96.
EnoughFrames(frames) == Len(frames) >= MinFramesForSuccess

InitExtract ==
    /\ fxIn \in ExtractInputs
    /\ fxpc = "call"
    /\ fxI = 0
    /\ fxFrames = <<>>
    /\ fxDisk = {}
    /\ fxOut = NoExtraction

IdleExtract ==
    /\ fxIn = NoExtractInput
    /\ fxpc = "idle"
    /\ fxI = 0
    /\ fxFrames = <<>>
    /\ fxDisk = {}
    /\ fxOut = NoExtraction

\* Lines 33-65: the two early returns, os.makedirs, and the sampling plan.
ExtractEnter ==
    /\ fxpc = "call"
    /\ IF fxIn.file = "missing"
       THEN /\ fxOut' = Extraction(FALSE, <<>>, "video_not_found")
            /\ fxpc' = "done"
       ELSE IF fxIn.out_dir = "uncreatable"
       THEN /\ fxOut' = fxOut
            /\ fxpc' = "raised"
       ELSE IF fxIn.file = "unopenable"
       THEN /\ fxOut' = Extraction(FALSE, <<>>, "video_not_opened")
            /\ fxpc' = "done"
       ELSE /\ fxOut' = fxOut
            /\ fxpc' = "loop"
    /\ UNCHANGED <<fxIn, fxI, fxFrames, fxDisk>>
    /\ UNCHANGED notFxVars

\* Lines 68-92: one pass of the read loop.
ExtractReadFrame ==
    /\ fxpc = "loop"
    /\ IF fxI >= fxIn.readable
       THEN /\ fxpc' = "release"
            /\ UNCHANGED <<fxI, fxFrames, fxDisk>>
       ELSE IF IsSampled(fxIn, fxI)
       THEN LET saved == Len(fxFrames)
                file == [name |-> saved, shape |-> ResizedShape(fxIn.shape)]
            IN /\ fxDisk' = IF WriteSucceeds(fxIn.out_dir) THEN fxDisk \cup {file} ELSE fxDisk
               /\ fxFrames' = Append(fxFrames, saved)
               /\ IF saved + 1 >= fxIn.max_frames
                  THEN fxpc' = "release" /\ fxI' = fxI
                  ELSE fxpc' = "loop" /\ fxI' = fxI + 1
       ELSE /\ fxI' = fxI + 1
            /\ UNCHANGED <<fxpc, fxFrames, fxDisk>>
    /\ UNCHANGED <<fxIn, fxOut>>
    /\ UNCHANGED notFxVars

\* Lines 94-98.
ExtractReturn ==
    /\ fxpc = "release"
    /\ fxOut' = Extraction(EnoughFrames(fxFrames), fxFrames,
                           IF EnoughFrames(fxFrames) THEN "extraction_done"
                           ELSE "not_enough_frames")
    /\ fxpc' = "done"
    /\ UNCHANGED <<fxIn, fxI, fxFrames, fxDisk>>
    /\ UNCHANGED notFxVars

NextExtract ==
    \/ ExtractEnter
    \/ ExtractReadFrame
    \/ ExtractReturn

(***************************************************************************)
(* Suspicious-Evidence Selector: suspicious_frames.py                       *)
(***************************************************************************)
MaxFindings == 3
DefaultMaxImages == 4

\* What a finding's frame reference is: absent, a path with no file, a file
\* cv2.imread cannot decode, or a decodable frame.
FrameRefs == {"none", "missing", "undecodable", "ok"}
FindingConfidences == {50, 90}

\* The k-th finding of the damage report; its label (detector mode) and its
\* signals (heuristic mode) are written k, different for each finding.
Finding(k, frame, confidence) ==
    [frame |-> frame, confidence |-> confidence, label |-> k, signals |-> k]
FindingLists ==
    UNION {{[k \in 1..n |-> Finding(k, f[k][1], f[k][2])] :
               f \in [1..n -> FrameRefs \X FindingConfidences]} : n \in 0..MaxFindings}

\* The damage report (its method, its summary's severity or none, its
\* findings), the output directory and max_images.
SuspiciousInputs ==
    [method : {"yolo", "heuristic"}, severity : {"low", "high", "absent"},
     findings : FindingLists, output_dir : {"writable", "read_only", "uncreatable"},
     max_images : {1, 2, DefaultMaxImages}]
NoSuspiciousInput ==
    [method |-> "unset", severity |-> "unset", findings |-> <<>>, output_dir |-> "unset",
     max_images |-> 0]
NoSuspicious == [returned |-> FALSE, raised |-> FALSE, results |-> <<>>, written |-> {}]

\* Line 34: the summary's severity, "medium" when the summary has none.
SummarySeverity(in) == IF in.severity = "absent" THEN "medium" ELSE in.severity

\* Lines 44-48: sorted(..., key=confidence, reverse=True), equal confidences in
\* their original order.
RECURSIVE InsertByConfidence(_, _)
InsertByConfidence(sorted, x) ==
    IF sorted = <<>> THEN <<x>>
    ELSE IF Head(sorted).confidence >= x.confidence
         THEN <<Head(sorted)>> \o InsertByConfidence(Tail(sorted), x)
         ELSE <<x>> \o sorted
RECURSIVE SortByConfidence(_, _)
SortByConfidence(findings, n) ==
    IF n = 0 THEN <<>>
    ELSE InsertByConfidence(SortByConfidence(findings, n - 1), findings[n])

\* Lines 43-48 and 74: the findings the loop goes over.
SelectedInListOrder(in) == Head_n(in.findings, in.max_images)
Selected(in) ==
    IF in.method = "yolo"
    THEN Head_n(SortByConfidence(in.findings, Len(in.findings)), in.max_images)
    ELSE Head_n(in.findings, in.max_images)

\* Lines 65 and 89-94.
Caption(method, f) ==
    IF method = "yolo" THEN [text |-> "Olasi ... sinyali", of |-> f.label]
    ELSE [text |-> "Cizik ... Gocuk ... Boya ...", of |-> f.signals]

\* Lines 52-57 and 78-83: the frame can be read.
FrameUsable(f) == f.frame = "ok"

\* Lines 50-67 and 76-100: the loop; image_path ends in suspicious_<i+1>.jpg.
RECURSIVE EvidenceItems(_, _, _)
EvidenceItems(in, sel, i) ==
    IF i > Len(sel) THEN <<>>
    ELSE IF FrameUsable(sel[i])
         THEN <<[image_path |-> i, caption |-> Caption(in.method, sel[i]),
                 severity |-> SummarySeverity(in)]>> \o EvidenceItems(in, sel, i + 1)
         ELSE EvidenceItems(in, sel, i + 1)

\* Line 30 raises when the directory cannot be made; lines 61 and 87 write the
\* thumbnail and do not look at what cv2.imwrite returns.
extract_suspicious_frames(in) ==
    IF in.output_dir = "uncreatable"
    THEN [NoSuspicious EXCEPT !.raised = TRUE]
    ELSE LET items == EvidenceItems(in, Selected(in), 1)
         IN [NoSuspicious EXCEPT
                !.returned = TRUE,
                !.results = items,
                !.written = IF in.output_dir = "writable"
                            THEN {items[k].image_path : k \in 1..Len(items)}
                            ELSE {}]

InitSuspicious ==
    /\ susIn \in SuspiciousInputs
    /\ susOut = NoSuspicious

IdleSuspicious ==
    /\ susIn = NoSuspiciousInput
    /\ susOut = NoSuspicious

ExtractSuspiciousFrames ==
    /\ susIn \in SuspiciousInputs
    /\ susOut = NoSuspicious
    /\ susOut' = extract_suspicious_frames(susIn)
    /\ UNCHANGED susIn
    /\ UNCHANGED notSusVars

NextSuspicious == ExtractSuspiciousFrames

(***************************************************************************)
(* Session store and POST /analysis/{token}/run: main.py                    *)
(***************************************************************************)
Tokens == {"t1", "t2"}
MaxBatch == 2
MaxSessionImages == 4
MaxImagesAllowed == 30
MinImagesToRun == 3

\* The names each analysis module defines at its top level.
ModuleExports(module) ==
    CASE module = "damage_pipeline" -> {"_heuristic_damage_signals", "run_damage_pipeline"}
      [] module = "engine_audio" ->
            {"_ffmpeg_extract_wav", "_read_wav_pcm16", "_band_energy", "analyze_engine_audio"}
      [] module = "ai_confidence" -> {"compute_confidence"}
      [] module = "ai_commentary" -> {"_bulletify", "generate_human_commentary"}
      [] module = "suspicious_frames" -> {"extract_suspicious_frames"}

\* _lazy_import_analysis: the names it imports, each from its module.
LazyImports ==
    {<<"damage_pipeline", "run_damage_pipeline">>,
     <<"engine_audio", "analyze_engine_audio_file">>,
     <<"ai_confidence", "compute_confidence">>,
     <<"ai_commentary", "generate_human_commentary">>,
     <<"suspicious_frames", "extract_suspicious_frames_from_images">>}

\* "ok", or the exception a from-import of a name the module lacks raises.
LazyImportAnalysis ==
    IF \A imp \in LazyImports : imp[2] \in ModuleExports(imp[1]) THEN "ok" ELSE "ImportError"

AbsentConfidence == [present |-> FALSE, confidence_score |-> 0, confidence_level |-> "absent"]
PlaceholderConfidence == [present |-> TRUE, confidence_score |-> 0, confidence_level |-> "bilinmiyor"]
PlaceholderCommentary == [present |-> TRUE, method |-> "absent", text |-> <<"Yapay zeka yorumu hazirlanamadi.">>]

NoSession ==
    [exists |-> FALSE, status |-> "none", images |-> <<>>, audio |-> FALSE, error |-> "",
     job_id |-> FALSE, confidence |-> AbsentConfidence, ai_commentary |-> NoCommentary]

\* analysis_start, lines 180-190.
StartedSession == [NoSession EXCEPT !.exists = TRUE, !.status = "started"]

\* _ensure_safe_completed.
EnsureSafeCompleted(meta, error) ==
    [meta EXCEPT !.status = "analysis_completed",
                 !.error = error,
                 !.confidence = IF meta.confidence.present THEN meta.confidence
                                ELSE PlaceholderConfidence,
                 !.ai_commentary = IF meta.ai_commentary.present THEN meta.ai_commentary
                                   ELSE PlaceholderCommentary]

\* _next_image_index: one more than the largest img_<n> on disk.
RECURSIVE MaxOf(_)
MaxOf(S) ==
    IF S = {} THEN 0
    ELSE LET x == CHOOSE y \in S : TRUE
         IN Max2(x, MaxOf(S \ {x}))
NextImageIndex(files) == MaxOf(files) + 1

\* Lines 216-236: the uploads of at least 2000 bytes, numbered from start_idx.
RECURSIVE SavedIndices(_, _, _)
SavedIndices(batch, i, next) ==
    IF i > Len(batch) THEN <<>>
    ELSE IF batch[i] THEN <<next>> \o SavedIndices(batch, i + 1, next + 1)
         ELSE SavedIndices(batch, i + 1, next)

SeqRange(q) == {q[i] : i \in 1..Len(q)}

\* Lines 425-427 in hundredths: min(1.0, len(image_paths) / 12.0).
PhotoCoverage(n) == Min2(100, (n * 100) \div 12)

\* Lines 390-460, reached only when the lazy import raised nothing: the damage
\* pipeline over the session's images with no detector configured, the
\* confidence over it, and the commentary with no LLM credential.
LocalReport(meta, paths) ==
    LET clean == [exists |-> TRUE, image |-> Image(TRUE, FALSE, 10, 100, 20, 30),
                  predict |-> [raises |-> FALSE, dets |-> <<>>]]
        damage == run_damage_pipeline(
                      [frames |-> [i \in 1..Len(paths) |-> clean],
                       detector |-> DetectorEnv(FALSE, TRUE, TRUE, FALSE),
                       yolo_conf |-> DefaultYoloConf,
                       max_frames_to_process |-> DefaultMaxFramesToProcess])
        conf == compute_confidence(
                    [video_quality |-> {}, coverage_ratio |-> PhotoCoverage(Len(paths)),
                     method |-> damage.method, engine_audio |-> NoAudio])
        commentary == generate_human_commentary(
                    [damage |-> NarDamage(damage.method, damage.severity, 0, TRUE),
                     hints |-> [v_hints |-> <<>>,
                                c_hints |-> IF Len(paths) < 6 THEN <<"c_few_photos">> ELSE <<>>],
                     engine_audio |-> NarAudio(FALSE, FALSE, FALSE, "unknown", <<>>),
                     confidence |-> [present |-> TRUE, confidence_level |-> conf.confidence_level],
                     llm_env |-> NoLlmEnv])
    IN [meta EXCEPT !.status = "analysis_completed",
                    !.error = "",
                    !.confidence = [present |-> TRUE,
                                    confidence_score |-> conf.confidence_score,
                                    confidence_level |-> conf.confidence_level],
                    !.ai_commentary = [present |-> TRUE, method |-> commentary.method,
                                       text |-> commentary.text]]

\* run_analysis, lines 312-469: the record it stores and the response it gives.
RunAnalysisOutcome(meta, files, env) ==
    LET paths == SelectSeq(meta.images, LAMBDA i : i \in files)
    IN IF ~meta.exists THEN [store |-> FALSE, record |-> meta, resp |-> "404"]
       ELSE IF Len(meta.images) < MinImagesToRun
            THEN [store |-> FALSE, record |-> meta, resp |-> "400_too_few_images"]
       ELSE IF paths = <<>>
            THEN [store |-> FALSE, record |-> meta, resp |-> "400_images_not_found"]
       ELSE IF env.use_gpu_worker
            THEN IF ~env.public_base_url
                 THEN [store |-> TRUE,
                       record |-> EnsureSafeCompleted(meta, "PUBLIC_BASE_URL missing"),
                       resp |-> "gpu_no_base_url"]
                 ELSE \* line 365: JOBS is not defined anywhere in main.py
                      [store |-> FALSE, record |-> meta, resp |-> "500_NameError"]
       ELSE LET processing == [meta EXCEPT !.status = "processing", !.error = ""]
            IN IF LazyImportAnalysis = "ok"
               THEN [store |-> TRUE, record |-> LocalReport(processing, paths),
                     resp |-> "local_ok"]
               ELSE [store |-> TRUE,
                     record |-> EnsureSafeCompleted(processing, LazyImportAnalysis),
                     resp |-> "local_failed"]

\* The names main.py binds at module level that the job endpoints use; JOBS
\* (line 365) and RESULTS (lines 482, 535, 574) are bound nowhere.
ModuleGlobals == {"JOBS_FILE", "RESULTS_DIR", "UPLOAD_DIR", "load_jobs", "save_jobs",
                  "_load_result", "_save_result", "_ensure_safe_completed"}

\* jobs_result, lines 529-570, for job_id = token: line 535 assigns into
\* RESULTS before anything is loaded or stored.
JobsResultOutcome(meta) ==
    IF "RESULTS" \notin ModuleGlobals
    THEN [store |-> FALSE, record |-> meta, resp |-> "result_500_NameError"]
    ELSE [store |-> TRUE,
          record |-> EnsureSafeCompleted([meta EXCEPT !.exists = TRUE], ""),
          resp |-> "result_ok"]

MainEnvs == [use_gpu_worker : BOOLEAN, public_base_url : BOOLEAN]

InitMain ==
    /\ mainEnv \in MainEnvs
    /\ sessions = [t \in Tokens |-> NoSession]
    /\ imgFiles = [t \in Tokens |-> {}]
    /\ resp = [t \in Tokens |-> "none"]

IdleMain ==
    /\ mainEnv = [use_gpu_worker |-> FALSE, public_base_url |-> FALSE]
    /\ sessions = [t \in {} |-> NoSession]
    /\ imgFiles = [t \in {} |-> {}]
    /\ resp = [t \in {} |-> "none"]

\* POST /analysis/start: a fresh token and its record.
AnalysisStart(t) ==
    /\ t \in DOMAIN sessions
    /\ ~sessions[t].exists
    /\ sessions' = [sessions EXCEPT ![t] = StartedSession]
    /\ resp' = [resp EXCEPT ![t] = "started"]
    /\ UNCHANGED <<mainEnv, imgFiles>>
    /\ UNCHANGED notMainVars

\* POST /analysis/{token}/images; batch[i] tells whether the i-th upload has at
\* least 2000 bytes.
UploadImages(t, batch) ==
    /\ t \in DOMAIN sessions
    /\ sessions[t].exists
    /\ Len(sessions[t].images) + Len(batch) <= MaxSessionImages
    /\ LET data == sessions[t]
           remaining == Max2(0, MaxImagesAllowed - Len(data.images))
           saved == SavedIndices(Head_n(batch, remaining), 1, NextImageIndex(imgFiles[t]))
       IN IF remaining <= 0
          THEN /\ resp' = [resp EXCEPT ![t] = "400_max_images"]
               /\ UNCHANGED <<sessions, imgFiles>>
          ELSE IF saved = <<>>
               THEN /\ resp' = [resp EXCEPT ![t] = "400_no_valid_images"]
                    /\ UNCHANGED <<sessions, imgFiles>>
               ELSE /\ imgFiles' = [imgFiles EXCEPT ![t] = @ \cup SeqRange(saved)]
                    /\ sessions' = [sessions EXCEPT ![t] =
                                       [data EXCEPT !.images = @ \o saved,
                                                    !.status = "images_uploaded",
                                                    !.error = ""]]
                    /\ resp' = [resp EXCEPT ![t] = "images_uploaded"]
    /\ UNCHANGED mainEnv
    /\ UNCHANGED notMainVars

\* POST /analysis/{token}/audio; big tells whether the upload has at least
\* 2000 bytes.
UploadAudio(t, big) ==
    /\ t \in DOMAIN sessions
    /\ sessions[t].exists
    /\ IF ~big
       THEN /\ resp' = [resp EXCEPT ![t] = "400_audio_too_small"]
            /\ UNCHANGED sessions
       ELSE /\ sessions' = [sessions EXCEPT ![t] =
                               [@ EXCEPT !.audio = TRUE, !.status = "audio_uploaded",
                                         !.error = ""]]
            /\ resp' = [resp EXCEPT ![t] = "audio_uploaded"]
    /\ UNCHANGED <<mainEnv, imgFiles>>
    /\ UNCHANGED notMainVars

\* POST /analysis/{token}/run.
RunAnalysis(t) ==
    /\ t \in DOMAIN sessions
    /\ LET out == RunAnalysisOutcome(sessions[t], imgFiles[t], mainEnv)
       IN /\ sessions' = IF out.store THEN [sessions EXCEPT ![t] = out.record] ELSE sessions
          /\ resp' = [resp EXCEPT ![t] = out.resp]
    /\ UNCHANGED <<mainEnv, imgFiles>>
    /\ UNCHANGED notMainVars

\* POST /jobs/{job_id}/result with job_id = t.
JobsResult(t) ==
    /\ t \in DOMAIN sessions
    /\ LET out == JobsResultOutcome(sessions[t])
       IN /\ sessions' = IF out.store THEN [sessions EXCEPT ![t] = out.record] ELSE sessions
          /\ resp' = [resp EXCEPT ![t] = out.resp]
    /\ UNCHANGED <<mainEnv, imgFiles>>
    /\ UNCHANGED notMainVars

NextMain ==
    \/ \E t \in Tokens : AnalysisStart(t)
    \/ \E t \in Tokens : \E batch \in SeqsUpTo(BOOLEAN, MaxBatch) \ {<<>>} : UploadImages(t, batch)
    \/ \E t \in Tokens : \E big \in BOOLEAN : UploadAudio(t, big)
    \/ \E t \in Tokens : RunAnalysis(t)
    \/ \E t \in Tokens : JobsResult(t)

(***************************************************************************)
(* File-backed job queue: main.py /jobs/create, /jobs/next                  *)
(***************************************************************************)
MaxRequests == 3
Requests == 1..MaxRequests

\* A request not yet made; jobs is the handler's local list, job what
\* /jobs/next handed out.
NoJob == [job_id |-> 0, status |-> "none"]
NoRequest == [kind |-> "none", pc |-> "idle", jobs |-> <<>>, job |-> NoJob, resp |-> "none"]

\* Lines 503-509: the entry jobs_create appends; the request r sends job_id r.
QueuedJob(job_id) == [job_id |-> job_id, status |-> "queued"]

\* load_jobs, lines 31-35: the list in jobs_queue.json, [] when there is no file.
load_jobs(file) == file

\* save_jobs, lines 37-39: the file holds the list given.
save_jobs(jobs) == jobs

InitJobs ==
    /\ jobsFile = <<>>
    /\ jobReq = [r \in Requests |-> NoRequest]

IdleJobs ==
    /\ jobsFile = <<>>
    /\ jobReq = [r \in {} |-> NoRequest]

\* jobs_create, lines 494-501: the payload check and load_jobs.
JobsCreateLoad(r, valid) ==
    /\ r \in DOMAIN jobReq
    /\ jobReq[r].pc = "idle"
    /\ jobReq' = [jobReq EXCEPT ![r] =
                     IF ~valid
                     THEN [@ EXCEPT !.kind = "create", !.pc = "done", !.resp = "400"]
                     ELSE [@ EXCEPT !.kind = "create", !.pc = "loaded",
                                    !.jobs = load_jobs(jobsFile)]]
    /\ UNCHANGED jobsFile
    /\ UNCHANGED notJobsVars

\* jobs_create, lines 503-512: append to the local list and save_jobs.
JobsCreateSave(r) ==
    /\ r \in DOMAIN jobReq
    /\ jobReq[r].kind = "create"
    /\ jobReq[r].pc = "loaded"
    /\ jobsFile' = save_jobs(Append(jobReq[r].jobs, QueuedJob(r)))
    /\ jobReq' = [jobReq EXCEPT ![r] = [@ EXCEPT !.pc = "done", !.resp = "ok"]]
    /\ UNCHANGED notJobsVars

\* jobs_next, lines 516-519: load_jobs and the empty-queue answer.
JobsNextLoad(r) ==
    /\ r \in DOMAIN jobReq
    /\ jobReq[r].pc = "idle"
    /\ LET jobs == load_jobs(jobsFile)
       IN jobReq' = [jobReq EXCEPT ![r] =
                        IF jobs = <<>>
                        THEN [@ EXCEPT !.kind = "next", !.pc = "done", !.resp = "no_job"]
                        ELSE [@ EXCEPT !.kind = "next", !.pc = "loaded", !.jobs = jobs]]
    /\ UNCHANGED jobsFile
    /\ UNCHANGED notJobsVars

\* jobs_next, lines 521-526: pop the first job, save_jobs, hand the job out.
JobsNextSave(r) ==
    /\ r \in DOMAIN jobReq
    /\ jobReq[r].kind = "next"
    /\ jobReq[r].pc = "loaded"
    /\ jobsFile' = save_jobs(Tail(jobReq[r].jobs))
    /\ jobReq' = [jobReq EXCEPT ![r] =
                     [@ EXCEPT !.pc = "done", !.resp = "job",
                               !.job = [Head(jobReq[r].jobs) EXCEPT !.status = "processing"]]]
    /\ UNCHANGED notJobsVars

NextJobs ==
    \/ \E r \in Requests : \E valid \in BOOLEAN : JobsCreateLoad(r, valid)
    \/ \E r \in Requests : JobsCreateSave(r)
    \/ \E r \in Requests : JobsNextLoad(r)
    \/ \E r \in Requests : JobsNextSave(r)

(***************************************************************************)
(* Concurrent POST /analysis/{token}/images for one token: main.py          *)
(***************************************************************************)
MaxUploads == 2
UploadCalls == 1..MaxUploads

\* An upload_images call not yet made. batch[i] tells whether the i-th upload
\* has at least 2000 bytes; data is the record the call loaded, saved the
\* indices of the files it wrote (all uploads are taken to be .jpg files).
NoUploadCall ==
    [pc |-> "idle", batch |-> <<>>, data |-> <<>>, start_idx |-> 0, i |-> 0,
     saved |-> <<>>, resp |-> "none", images |-> <<>>]

\* open(path, "wb"): the file img_<n> holds the content given, whatever it held.
WriteFile(disk, n, content) ==
    [m \in DOMAIN disk \cup {n} |-> IF m = n THEN content ELSE disk[m]]

\* Lines 238-247: the answer once the loop is over.
UploadFinish(call) ==
    IF call.saved = <<>>
    THEN [call EXCEPT !.pc = "done", !.resp = "400_no_valid_images"]
    ELSE [call EXCEPT !.pc = "done", !.resp = "ok", !.images = call.saved]

InitUploads ==
    /\ upSession \in {[exists |-> FALSE, images |-> <<>>], [exists |-> TRUE, images |-> <<>>]}
    /\ upDisk = <<>>
    /\ upCall = [c \in UploadCalls |-> NoUploadCall]

IdleUploads ==
    /\ upSession = [exists |-> FALSE, images |-> <<>>]
    /\ upDisk = <<>>
    /\ upCall = [c \in {} |-> NoUploadCall]

\* upload_images from its start to the first await img.read() (lines 199-217):
\* the record is loaded and start_idx computed before any file is read.
UploadImagesBegin(c, batch) ==
    /\ c \in DOMAIN upCall
    /\ upCall[c].pc = "idle"
    /\ LET remaining == Max2(0, MaxImagesAllowed - Len(upSession.images))
       IN upCall' = [upCall EXCEPT ![c] =
             IF ~upSession.exists
             THEN [@ EXCEPT !.pc = "done", !.resp = "404"]
             ELSE IF remaining <= 0
             THEN [@ EXCEPT !.pc = "done", !.resp = "400_max_images"]
             ELSE [@ EXCEPT !.pc = "reading", !.batch = Head_n(batch, remaining),
                            !.data = upSession.images,
                            !.start_idx = NextImageIndex(DOMAIN upDisk), !.i = 1]]
    /\ UNCHANGED <<upSession, upDisk>>
    /\ UNCHANGED notUpVars

\* The call resumes after await img.read() (lines 218-236): the file is
\* written under start_idx + len(saved_disk_paths); then the next await, or,
\* after the last upload, lines 238-247 with _save_result.
UploadImagesResume(c) ==
    /\ c \in DOMAIN upCall
    /\ upCall[c].pc = "reading"
    /\ LET call == upCall[c]
           valid == call.batch[call.i]
           fn == call.start_idx + Len(call.saved)
           after == [call EXCEPT !.saved = IF valid THEN Append(@, fn) ELSE @,
                                 !.i = @ + 1]
           ended == UploadFinish(after)
       IN /\ upDisk' = IF valid THEN WriteFile(upDisk, fn, <<c, call.i>>) ELSE upDisk
          /\ IF after.i <= Len(call.batch)
             THEN /\ upCall' = [upCall EXCEPT ![c] = after]
                  /\ UNCHANGED upSession
             ELSE /\ upCall' = [upCall EXCEPT ![c] = ended]
                  /\ upSession' = IF ended.resp = "ok"
                                  THEN [upSession EXCEPT !.images = call.data \o ended.images]
                                  ELSE upSession
    /\ UNCHANGED notUpVars

NextUploads ==
    \/ \E c \in UploadCalls : \E batch \in SeqsUpTo(BOOLEAN, MaxBatch) \ {<<>>} :
          UploadImagesBegin(c, batch)
    \/ \E c \in UploadCalls : UploadImagesResume(c)

(***************************************************************************)
(* Specifications: one per component, and their union.                      *)
(***************************************************************************)
\* Every component but the named one is idle.
OthersIdle(component) ==
    /\ (IF component = "confidence" THEN TRUE ELSE IdleConfidence)
    /\ (IF component = "damage" THEN TRUE ELSE IdleDamage)
    /\ (IF component = "audio" THEN TRUE ELSE IdleAudio)
    /\ (IF component = "main" THEN TRUE ELSE IdleMain)
    /\ (IF component = "narrative" THEN TRUE ELSE IdleNarrative)
    /\ (IF component = "tamper" THEN TRUE ELSE IdleTamper)
    /\ (IF component = "coverage" THEN TRUE ELSE IdleCoverage)
    /\ (IF component = "video_quality" THEN TRUE ELSE IdleVideoQuality)
    /\ (IF component = "extract" THEN TRUE ELSE IdleExtract)
    /\ (IF component = "suspicious" THEN TRUE ELSE IdleSuspicious)
    /\ (IF component = "jobs" THEN TRUE ELSE IdleJobs)
    /\ (IF component = "uploads" THEN TRUE ELSE IdleUploads)

StartConfidence == InitConfidence /\ OthersIdle("confidence")
StartDamage == InitDamage /\ OthersIdle("damage")
StartAudio == InitAudio /\ OthersIdle("audio")
StartMain == InitMain /\ OthersIdle("main")
StartNarrative == InitNarrative /\ OthersIdle("narrative")
StartTamper == InitTamper /\ OthersIdle("tamper")
StartCoverage == InitCoverage /\ OthersIdle("coverage")
StartVideoQuality == InitVideoQuality /\ OthersIdle("video_quality")
StartExtract == InitExtract /\ OthersIdle("extract")
StartSuspicious == InitSuspicious /\ OthersIdle("suspicious")
StartJobs == InitJobs /\ OthersIdle("jobs")
StartUploads == InitUploads /\ OthersIdle("uploads")

SpecConfidence == StartConfidence /\ [][NextConfidence]_vars
SpecDamage == StartDamage /\ [][NextDamage]_vars
SpecAudio == StartAudio /\ [][NextAudio]_vars
SpecMain == StartMain /\ [][NextMain]_vars
SpecNarrative == StartNarrative /\ [][NextNarrative]_vars
SpecTamper == StartTamper /\ [][NextTamper]_vars
SpecCoverage == StartCoverage /\ [][NextCoverage]_vars
SpecVideoQuality == StartVideoQuality /\ [][NextVideoQuality]_vars
SpecExtract == StartExtract /\ [][NextExtract]_vars
SpecSuspicious == StartSuspicious /\ [][NextSuspicious]_vars
SpecJobs == StartJobs /\ [][NextJobs]_vars
SpecUploads == StartUploads /\ [][NextUploads]_vars

Init ==
    \/ StartConfidence
    \/ StartDamage
    \/ StartAudio
    \/ StartMain
    \/ StartNarrative
    \/ StartTamper
    \/ StartCoverage
    \/ StartVideoQuality
    \/ StartExtract
    \/ StartSuspicious
    \/ StartJobs
    \/ StartUploads
Next ==
    \/ NextConfidence
    \/ NextDamage
    \/ NextAudio
    \/ NextMain
    \/ NextNarrative
    \/ NextTamper
    \/ NextCoverage
    \/ NextVideoQuality
    \/ NextExtract
    \/ NextSuspicious
    \/ NextJobs
    \/ NextUploads
Spec == Init /\ [][Next]_vars

LevelRank(level) ==
    CASE level = "dusuk" -> 0
      [] level = "orta" -> 1
      [] level = "yuksek" -> 2

\* C1: compute_confidence returns a confidence_score in [0,100] for every
\* combination of the quality flags, coverage ratio, damage method and engine
\* audio report.
C1_ScoreInRange ==
    confOut.ok => (confOut.confidence_score >= 0 /\ confOut.confidence_score <= 100)

\* A result whose unclamped score was negative (all flags raised, low coverage).
C1_Witness ==
    /\ confOut.ok
    /\ RawScore(confIn) < 0
    /\ confOut.confidence_score = 0

\* Every result compute_confidence returns over the input domain.
ConfResults == {compute_confidence(in) : in \in ConfInputs}

\* C2: the level is the step function of the clamped score with breakpoints 45
\* and 70 (low below 45, medium from 45 below 70, high from 70), and no other
\* result with a score at or above a returned score has a lower level.
C2_LevelStepMonotonic ==
    confOut.ok =>
        /\ (confOut.confidence_score < 45 => confOut.confidence_level = "dusuk")
        /\ (confOut.confidence_score >= 45 /\ confOut.confidence_score < 70
                => confOut.confidence_level = "orta")
        /\ (confOut.confidence_score >= 70 => confOut.confidence_level = "yuksek")
        /\ \A r \in ConfResults :
              r.confidence_score >= confOut.confidence_score
                 => LevelRank(r.confidence_level) >= LevelRank(confOut.confidence_level)

\* A result exactly on the upper breakpoint (score 70, level high).
C2_Witness ==
    /\ confOut.ok
    /\ confOut.confidence_score = 70
    /\ confOut.confidence_level = "yuksek"


\* The run_analysis call for t started local processing and has ended.
LocalRunEnded(t) == resp[t] \in {"local_ok", "local_failed"}

\* C3: every run_analysis call that starts local processing ends with a stored
\* analysis_completed record that holds a confidence score the Confidence
\* Aggregator produced and non-empty narrative text the Narrative Generator
\* produced.
C3_LocalRunStoresAggregateReport ==
    \A t \in DOMAIN sessions :
        LocalRunEnded(t) =>
            /\ sessions[t].status = "analysis_completed"
            /\ sessions[t].confidence.present
            /\ \E r \in ConfResults :
                  /\ r.confidence_score = sessions[t].confidence.confidence_score
                  /\ r.confidence_level = sessions[t].confidence.confidence_level
            /\ sessions[t].ai_commentary.present
            /\ sessions[t].ai_commentary.method \in {"llm", "fallback"}
            /\ sessions[t].ai_commentary.text # <<>>

DamageCallEnded == dmgOut.returned \/ dmgOut.raised

\* The cases of an unavailable detector: no model path, the detection library
\* not installed, the model file missing, or loading the model throws.
DetectorUnavailable(det) ==
    \/ ~det.model_path_given
    \/ ~det.yolo_installed
    \/ ~det.model_file_exists
    \/ det.load_raises

SomeFrameExists(frames) == \E i \in 1..Len(frames) : frames[i].exists

\* C4: with the detector unavailable and at least one existing frame,
\* run_damage_pipeline returns ok=true with method heuristic and does not raise.
C4_UnavailableDetectorFallsBack ==
    (DamageCallEnded /\ DetectorUnavailable(dmgIn.detector) /\ SomeFrameExists(dmgIn.frames))
        => (dmgOut.returned /\ ~dmgOut.raised /\ dmgOut.ok /\ dmgOut.method = "heuristic")

\* The model path is given and loading the model throws; the call has returned
\* the heuristic result over an existing frame.
C4_Witness ==
    /\ dmgOut.returned
    /\ dmgOut.method = "heuristic"
    /\ dmgIn.detector.model_path_given
    /\ dmgIn.detector.load_raises
    /\ SomeFrameExists(dmgIn.frames)

\* predict raises on one of the frames the detector loop processes.
PredictFailsDuringRun(in) ==
    LET fs == Head_n(ExistingFrames(in.frames), in.max_frames_to_process)
    IN \E i \in 1..Len(fs) : fs[i].file.predict.raises

\* C5: when the detector was constructed and predict fails on a processed frame,
\* run_damage_pipeline still returns a heuristic-mode result (ok=true) and
\* raises nothing.
C5_InferenceFailureDegrades ==
    (DamageCallEnded /\ ~DetectorUnavailable(dmgIn.detector) /\ PredictFailsDuringRun(dmgIn))
        => (dmgOut.returned /\ ~dmgOut.raised /\ dmgOut.ok /\ dmgOut.method = "heuristic")


AudioCallEnded == apc \in {"done", "raised"}

\* C6: with the electric-vehicle flag set the call returns ok=true, skipped=true,
\* risk_level "none", whatever the source and the tool are, and never starts the
\* transcoding tool.
C6_ElectricAlwaysSkips ==
    (AudioCallEnded /\ audIn.vehicle_is_electric)
        => /\ apc = "done"
           /\ audOut.ok
           /\ audOut.skipped
           /\ audOut.risk_level = "none"
           /\ ~audHist.spawned
           /\ ~audHist.tmp_created

\* An electric vehicle whose source file does not exist: the call has returned.
C6_Witness ==
    /\ apc = "done"
    /\ audIn.vehicle_is_electric
    /\ ~audIn.source_exists
    /\ audOut = SkippedElectric

\* The audio cannot be analysed: the source is missing, or the tool is absent
\* or fails (non-zero exit, or no usable output file).
CannotAnalyse(in) ==
    \/ ~in.source_exists
    \/ in.tool \in {"absent", "fails", "fails_partial", "exits0_nofile"}

ShortDecodableAudio(in) ==
    /\ ~in.vehicle_is_electric
    /\ in.source_exists
    /\ in.tool = "ok"
    /\ WavFileBytes(in.wav) > MinWavBytes
    /\ in.wav.readable
    /\ in.wav.samples < 3 * in.wav.sr

\* C8: transcoded audio shorter than 3 seconds gives ok=true, risk_level
\* "unknown" and exactly one short-clip hint, without raising and without a
\* risk score.
C8_ShortClipUnknown ==
    (AudioCallEnded /\ ShortDecodableAudio(audIn))
        => /\ apc = "done"
           /\ audOut.ok
           /\ audOut.risk_level = "unknown"
           /\ audOut.hints = <<"record_5_10_sec">>
           /\ "risk_score" \notin audOut.signal_keys

\* A waveform one sample short of three seconds has been answered.
C8_Witness ==
    /\ apc = "done"
    /\ ShortDecodableAudio(audIn)
    /\ audIn.wav.samples = 47999
    /\ audOut = ShortClip

\* C9: a call that has not ended can always take its next step, so a tool that
\* never exits cannot keep analyze_engine_audio waiting forever.
C9_NeverWaitsForever ==
    (apc \in {"call", "run_ffmpeg", "wait_ffmpeg", "after_extract"}) => ENABLED NextAudio

\* C10: a call that created the temporary directory and has ended, by return or
\* by an exception, has left neither the directory nor the waveform file.
C10_TempDirRemoved ==
    (AudioCallEnded /\ audHist.tmp_created) => (~audFs.tmpdir /\ ~audFs.wav)

\* The waveform file was written and reading it raised; the call has ended.
C10_Witness ==
    /\ apc = "raised"
    /\ audHist.tmp_created
    /\ audHist.extracted
    /\ ~audFs.tmpdir
    /\ ~audFs.wav

\* The narrative generation failed: no credential, a network error or timeout,
\* a non-success status, or a malformed or empty payload.
NarrativeGenerationFailed(env) ==
    \/ env.api_key \in {<<>>, <<" ">>}
    \/ env.transport \in {"timeout", "connection_error"}
    \/ env.status_code >= 300
    \/ env.body.kind \in {"not_json", "array"}
    \/ ExtractText(env.body) = None

\* C11: generate_human_commentary always returns non-empty text with method llm
\* or fallback; when the narrative generation failed the method is fallback and
\* the text contains the disclaimer sentence; the method is llm only when the
\* external call returned non-empty text.
C11_CommentaryAlwaysReturned ==
    narOut.returned =>
        /\ narOut.text # <<>>
        /\ narOut.method \in {"llm", "fallback"}
        /\ NarrativeGenerationFailed(narIn.llm_env)
              => /\ narOut.method = "fallback"
                 /\ \E i \in 1..Len(narOut.text) : narOut.text[i] = Disclaimer
        /\ narOut.method = "llm"
              => /\ ~NarrativeGenerationFailed(narIn.llm_env)
                 /\ \E i \in 1..Len(narOut.text) : narOut.text[i] \notin Whitespace

\* Scenario D: a credential is set and the request times out; the fallback
\* report with the disclaimer has been returned.
C11_Witness ==
    /\ narOut.returned
    /\ narIn.llm_env.api_key = <<"x">>
    /\ narIn.llm_env.transport = "timeout"
    /\ narOut.method = "fallback"
    /\ narOut.text[Len(narOut.text)] = Disclaimer

\* No contour of the image is fastener-like: each has an area under 120 or over
\* 12% of the image, or an aspect ratio outside [0.55, 1.8].
NoFastenerLikeRegion(img) ==
    \A i \in 1..Len(img.contours) :
        LET c == img.contours[i]
        IN \/ c.bw * c.bh < 120
           \/ 100 * c.bw * c.bh > 12 * ImageHeight * ImageWidth
           \/ 100 * c.bw < 55 * c.bh
           \/ 10 * c.bw > 18 * c.bh

\* C12: on a readable image with no fastener-like region bolt_tamper_assessment
\* returns INSUFFICIENT_EVIDENCE with score 0.0 and no regions, and does not
\* raise.
C12_NoRegionsInsufficientEvidence ==
    ((boltOut.returned \/ boltOut.raised) /\ tamIn.readable /\ NoFastenerLikeRegion(tamIn))
        => /\ boltOut.returned
           /\ ~boltOut.raised
           /\ boltOut.label = "INSUFFICIENT_EVIDENCE"
           /\ boltOut.score = 0
           /\ boltOut.regions = <<>>

\* Scenario C with contours that the filters reject: two contours, one too
\* small and one too elongated, and the verdict has been returned.
C12_Witness ==
    /\ boltOut.returned
    /\ tamIn.readable
    /\ Len(tamIn.contours) = 2
    /\ NoFastenerLikeRegion(tamIn)
    /\ boltOut.label = "INSUFFICIENT_EVIDENCE"

\* The three-tier scale: DETECTED from 0.80, SUSPECTED from 0.62, otherwise
\* INSUFFICIENT_EVIDENCE.
ThreeTier(score) ==
    IF score >= 16000 THEN "DETECTED"
    ELSE IF score >= 12400 THEN "SUSPECTED"
    ELSE "INSUFFICIENT_EVIDENCE"

\* C13: the paint check and the bolt check both map their score to the verdict
\* of the one three-tier scale, so equal scores get equal labels.
C13_PaintAndBoltSameTiers ==
    /\ boltOut.returned => boltOut.label = ThreeTier(boltOut.score)
    /\ paintOut.returned => paintOut.label = ThreeTier(paintOut.score)

\* At least six frames, all existing and decodable, all showing the same.
IdenticalFrames(frames) ==
    /\ Len(frames) >= 6
    /\ \A i \in 1..Len(frames) :
          frames[i].exists /\ frames[i].decodable /\ frames[i].scene = frames[1].scene

\* C14: coverage_ratio is in [0,1], and for six or more identical frames it is
\* approximately 0 (at most 0.05: under two cells of the grid).
C14_CoverageRatioRange ==
    covOut.returned =>
        /\ covOut.coverage_ratio >= 0
        /\ covOut.coverage_ratio <= 100
        /\ IdenticalFrames(covIn) => covOut.coverage_ratio <= 5

\* The frames estimate_coverage can actually use: existing and decodable.
UsableFrames(frames) ==
    Cardinality({i \in 1..Len(frames) : frames[i].exists /\ frames[i].decodable})

\* C15: with fewer than six usable frames the result is the conservative one
\* (ok=false, coverage_ratio 0.0, a guidance hint), and no ratio is computed
\* from fewer than six frames.
C15_NeedsSixUsableFrames ==
    (covOut.returned /\ UsableFrames(covIn) < 6)
        => /\ ~covOut.ok
           /\ covOut.coverage_ratio = 0
           /\ Len(covOut.hints) >= 1
           /\ covOut.decoded = 0

\* The video cannot be read: the file is missing, cannot be opened, or yields no
\* frame.
UnreadableVideo(v) == v.file \in {"missing", "unopenable"} \/ ~v.has_frames

\* The flags the unreadable-video results set defensively.
DefensiveFlags == {"too_short", "too_low_res"}

\* C16: for a missing file, a file that cannot be opened, or a video without
\* frames, analyze_video_quality returns ok=false with the defensive flags
\* (too_short, too_low_res) set.
C16_UnreadableVideoAllFlags ==
    (vqOut.returned /\ UnreadableVideo(vqIn))
        => /\ ~vqOut.ok
           /\ DefensiveFlags \subseteq vqOut.flags

\* C17 as stated: in every result, the missing-file and cannot-open ones
\* included, the number of hints equals the number of raised flags.
C17_OneHintPerFlagEverywhere ==
    vqOut.returned => Len(vqOut.hints) = Cardinality(vqOut.flags)

\* C17 amended: a result computed from an opened video has exactly one hint per
\* raised flag, in the order of the flags; the missing-file and cannot-open
\* results have two raised flags (too_short, too_low_res) and one hint.
C17_OneHintPerDerivedFlag ==
    vqOut.returned =>
        /\ vqIn.file = "video"
              => /\ Len(vqOut.hints) = Cardinality(vqOut.flags)
                 /\ \A f \in vqOut.flags : \E i \in 1..Len(vqOut.hints) : vqOut.hints[i] = f
        /\ vqIn.file # "video"
              => /\ vqOut.flags = {"too_short", "too_low_res"}
                 /\ Len(vqOut.hints) = 1

\* A short, shaky, dark video: three flags raised, three hints.
C17_Witness ==
    /\ vqOut.returned
    /\ vqIn.file = "video"
    /\ vqOut.flags = {"too_short", "too_dark", "too_shaky"}
    /\ vqOut.hints = <<"too_short", "too_dark", "too_shaky">>

\* The video's duration (frame_count / fps) is below the 10-second minimum.
DurationBelowMinimum(v) ==
    v.file = "video" /\ v.fps > 0 /\ v.frame_count < 10 * v.fps

\* C18: a video shorter than the minimum has too_short=true and ok=false, and
\* for every coverage, damage method and audio report the pre-clamp confidence
\* score with that quality report is exactly 18 below the one with too_short
\* cleared.
C18_ShortVideoPenalty ==
    (vqOut.returned /\ DurationBelowMinimum(vqIn))
        => /\ "too_short" \in vqOut.flags
           /\ ~vqOut.ok
           /\ \A cov \in CovValues, m \in DamageMethods, ea \in AudioReports :
                 RawScore([video_quality |-> vqOut.flags, coverage_ratio |-> cov,
                           method |-> m, engine_audio |-> ea])
                   = RawScore([video_quality |-> vqOut.flags \ {"too_short"},
                               coverage_ratio |-> cov, method |-> m, engine_audio |-> ea]) - 18

\* Scenario B: a video of 299 frames at 30 fps that is otherwise good.
C18_Witness ==
    /\ vqOut.returned
    /\ vqIn.file = "video"
    /\ vqIn.fps = 30
    /\ vqIn.frame_count = 299
    /\ vqOut.flags = {"too_short"}
    /\ ~vqOut.ok

\* Scenario A: ten identical, sharp, well-lit frames, no detector, no audio.
\* What the stages give for it: the coverage report, the damage report, and the
\* reports handed to compute_confidence.
ScenarioACoverage == estimate_coverage([i \in 1..10 |-> CovFrame(TRUE, TRUE, Still)])
ScenarioADamage ==
    run_damage_pipeline(
        [frames |-> [i \in 1..10 |->
                        [exists |-> TRUE, image |-> Image(TRUE, FALSE, 10, 100, 20, 30),
                         predict |-> [raises |-> FALSE, dets |-> <<>>]]],
         detector |-> DetectorEnv(FALSE, TRUE, TRUE, FALSE),
         yolo_conf |-> DefaultYoloConf,
         max_frames_to_process |-> DefaultMaxFramesToProcess])
ScenarioAReports ==
    [video_quality |-> {}, coverage_ratio |-> ScenarioACoverage.coverage_ratio,
     method |-> ScenarioADamage.method, engine_audio |-> NoAudio]

\* C19 as stated: for the Scenario A outcome the confidence score is the base
\* score minus the coverage-tier penalty (78 - 22), no other term changing it.
C19_CoverageTermOnly ==
    (confOut.ok /\ confIn = ScenarioAReports) => confOut.confidence_score = 78 - 22

\* C19 amended: for the Scenario A outcome (coverage_ratio under the 0.35
\* breakpoint, heuristic-mode damage of severity low) the confidence score is
\* the base score minus the coverage-tier penalty and the heuristic-method
\* adjustment (78 - 22 - 4), no other term changing it.
C19_CoverageAndMethodTerms ==
    (confOut.ok /\ confIn = ScenarioAReports)
        => /\ ScenarioACoverage.coverage_ratio < 35
           /\ ScenarioADamage.ok
           /\ ScenarioADamage.method = "heuristic"
           /\ ScenarioADamage.severity = "low"
           /\ confOut.confidence_score = 78 - 22 - 4

\* compute_confidence has answered the Scenario A reports.
C19_Witness ==
    /\ confOut.ok
    /\ confIn = ScenarioAReports
    /\ confOut.confidence_level = "orta"

\* C20: extract_frames' result has ok=true exactly when count >= 8, count is
\* the number of frame files saved, count is at most max_frames, and a result
\* with ok=false has a diagnostic message.
C20_SuccessNeedsEightSavedFrames ==
    fxOut.returned =>
        /\ fxOut.ok <=> fxOut.count >= 8
        /\ fxOut.count = Cardinality(fxDisk)
        /\ fxOut.count <= fxIn.max_frames
        /\ ~fxOut.ok => fxOut.message # ""

\* C21: for every fps > 0 and min_gap_sec, the stride extract_frames samples
\* with keeps consecutive sampled frames at least min_gap_sec apart:
\* stride / fps >= min_gap_sec.
SamplingPlanned == fxIn.file = "video" /\ fxpc \in {"loop", "release", "done"}
C21_StrideKeepsMinimumGap ==
    (SamplingPlanned /\ fxIn.fps > 0) =>
        10 * Stride(fxIn) >= fxIn.min_gap_tenths * fxIn.fps

\* C22: the sampled indices span the whole clip: when the max_frames cap ends
\* the loop, the frames left after the last sampled index are no more than
\* one stride.
CapEndedSampling ==
    /\ fxIn.file = "video"
    /\ fxpc = "release"
    /\ ~IsShortDuration(fxIn)
    /\ fxIn.readable = fxIn.frame_count
    /\ Len(fxFrames) >= fxIn.max_frames
C22_SamplesSpanWholeClip ==
    CapEndedSampling => (fxIn.frame_count - 1) - fxI <= Stride(fxIn)

\* The pre-clamp score drop the raised flags cause: the score of the same
\* reports with no flag raised minus the score with the flags raised.
FlagsDrop(in, raised) ==
    RawScore([in EXCEPT !.video_quality = {}]) - RawScore([in EXCEPT !.video_quality = raised])

RECURSIVE SumOfSingleDrops(_, _)
SumOfSingleDrops(in, raised) ==
    IF raised = {} THEN 0
    ELSE LET f == CHOOSE x \in raised : TRUE
         IN FlagsDrop(in, {f}) + SumOfSingleDrops(in, raised \ {f})

\* C23 as stated: the pre-clamp drop of a set of raised flags is the sum of
\* the flags' penalties, and no two different flags carry the same penalty.
C23_AdditiveAllDistinctPenalties ==
    confOut.ok =>
        /\ FlagsDrop(confIn, confIn.video_quality) = SumOfSingleDrops(confIn, confIn.video_quality)
        /\ \A f \in QualityFlags, g \in QualityFlags :
              f # g => FlagsDrop(confIn, {f}) # FlagsDrop(confIn, {g})

\* C23 amended: the pre-clamp drop of a set of raised flags is the sum of the
\* flags' penalties, each flag has its own fixed positive penalty (18, 14, 10,
\* 8, 16, 10 in the order of QualityFlags), and the only two flags with the
\* same penalty value are too_dark and too_shaky (10 each).
C23_AdditiveFixedPenalties ==
    confOut.ok =>
        /\ FlagsDrop(confIn, confIn.video_quality) = SumOfSingleDrops(confIn, confIn.video_quality)
        /\ FlagsDrop(confIn, {"too_short"}) = 18
        /\ FlagsDrop(confIn, {"too_low_res"}) = 14
        /\ FlagsDrop(confIn, {"too_dark"}) = 10
        /\ FlagsDrop(confIn, {"too_bright"}) = 8
        /\ FlagsDrop(confIn, {"too_blurry"}) = 16
        /\ FlagsDrop(confIn, {"too_shaky"}) = 10
        /\ \A f \in QualityFlags, g \in QualityFlags :
              (f # g /\ FlagsDrop(confIn, {f}) = FlagsDrop(confIn, {g}))
                 => {f, g} = {"too_dark", "too_shaky"}

\* A result for reports with too_dark and too_shaky raised together with a
\* third flag, the score staying above the clamp.
C23_Witness ==
    /\ confOut.ok
    /\ confIn.video_quality = {"too_dark", "too_shaky", "too_bright"}
    /\ RawScore(confIn) > 0
    /\ confOut.confidence_score = RawScore(confIn)

SeverityRank(severity) ==
    CASE severity = "low" -> 0
      [] severity = "medium" -> 1
      [] severity = "high" -> 2

\* The suspect-label count, peak confidence and severity of every detector-mode
\* result over the input domain.
DetectorResults ==
    {<<r.suspected_total, r.top_confidence, r.severity>> :
        r \in {x \in {run_damage_pipeline(in) : in \in DamageInputs} :
                  x.returned /\ x.method = "yolo"}}

\* C24: in detector mode severity is high if the suspect-label count is >= 6 or
\* the peak confidence >= 0.75, otherwise medium if the count is >= 3 or the
\* peak confidence >= 0.60, otherwise low; and no result with at least the same
\* count and peak confidence has a lower severity.
C24_DetectorSeverityBreakpoints ==
    (dmgOut.returned /\ dmgOut.method = "yolo") =>
        /\ (dmgOut.suspected_total >= 6 \/ dmgOut.top_confidence >= 75)
              => dmgOut.severity = "high"
        /\ (~(dmgOut.suspected_total >= 6 \/ dmgOut.top_confidence >= 75)
            /\ (dmgOut.suspected_total >= 3 \/ dmgOut.top_confidence >= 60))
              => dmgOut.severity = "medium"
        /\ (dmgOut.suspected_total < 3 /\ dmgOut.top_confidence < 60)
              => dmgOut.severity = "low"
        /\ \A r \in DetectorResults :
              (r[1] >= dmgOut.suspected_total /\ r[2] >= dmgOut.top_confidence)
                 => SeverityRank(r[3]) >= SeverityRank(dmgOut.severity)

\* A detector-mode result on a breakpoint: one detection at exactly 0.60.
C24_Witness ==
    /\ dmgOut.returned
    /\ dmgOut.method = "yolo"
    /\ dmgOut.suspected_total = 1
    /\ dmgOut.top_confidence = 60
    /\ dmgOut.severity = "medium"

\* The processed frames carry detections, none with a suspect label.
OnlyOtherDetections ==
    /\ dmgOut.returned
    /\ dmgOut.method = "yolo"
    /\ dmgOut.top_confidence > 0
    /\ dmgOut.suspected_total = 0

\* C30: in detector mode, when no detection of the processed frames has a
\* suspect label, the severity is low whatever the other detections'
\* confidences.
C30_OnlySuspectLabelsRaiseSeverity ==
    OnlyOtherDetections => dmgOut.severity = "low"

\* The findings that come before finding k in the order the selector takes
\* them: by confidence, descending, in detector mode (equal confidences in list
\* order); in list order in heuristic mode.
FindingsAhead(in, k) ==
    {j \in 1..Len(in.findings) :
        IF in.method = "yolo"
        THEN \/ in.findings[j].confidence > in.findings[k].confidence
             \/ (in.findings[j].confidence = in.findings[k].confidence /\ j < k)
        ELSE j < k}

\* The top max_images findings.
TopFindings(in) ==
    {k \in 1..Len(in.findings) : Cardinality(FindingsAhead(in, k)) < in.max_images}

\* C25: extract_suspicious_frames returns at most max_images items; they are
\* the top findings by confidence (detector mode) or the first findings in list
\* order (heuristic mode) whose frame can be read, in that order; findings with
\* a missing or undecodable frame are skipped and never make the call raise;
\* every item carries the summary's severity; no two items share an image path.
C25_TopFindingsSelected ==
    /\ susOut.raised => susIn.output_dir = "uncreatable"
    /\ susOut.returned =>
          LET items == susOut.results
              source(i) == items[i].caption.of
          IN /\ Len(items) <= susIn.max_images
             /\ {source(i) : i \in 1..Len(items)}
                   = {k \in TopFindings(susIn) : susIn.findings[k].frame = "ok"}
             /\ \A i \in 1..Len(items), j \in 1..Len(items) :
                   i < j => source(i) \in FindingsAhead(susIn, source(j))
             /\ \A i \in 1..Len(items) :
                   susIn.severity # "absent" => items[i].severity = susIn.severity
             /\ \A i \in 1..Len(items), j \in 1..Len(items) :
                   i # j => items[i].image_path # items[j].image_path

\* Detector mode, three findings for max_images = 2: the first has the lowest
\* confidence and is left out, the second has no file and is skipped, the third
\* is returned.
C25_Witness ==
    /\ susOut.returned
    /\ susIn.method = "yolo"
    /\ susIn.max_images = 2
    /\ Len(susIn.findings) = 3
    /\ susIn.findings[1].confidence = 50
    /\ susIn.findings[2].confidence = 90
    /\ susIn.findings[2].frame = "missing"
    /\ susIn.findings[3].confidence = 90
    /\ Len(susOut.results) = 1
    /\ susOut.results[1].caption.of = 3
    /\ susOut.results[1].image_path = 2

\* C26: no stage entry point raises for missing or corrupt media; here for the
\* two tamper checks: given an image file that is missing or cannot be decoded,
\* bolt_tamper_assessment and paint_local_repair_score return a result and do
\* not raise.
C26_UnreadableMediaNeverRaises ==
    ~tamIn.readable => (~boltOut.raised /\ ~paintOut.raised)

\* The jobs /jobs/create accepted, and the /jobs/next calls that handed out job j.
AcceptedJobs == {r \in DOMAIN jobReq : jobReq[r].kind = "create" /\ jobReq[r].resp = "ok"}
HandedOutBy(j) == {r \in DOMAIN jobReq : jobReq[r].resp = "job" /\ jobReq[r].job.job_id = j}
InQueue(j) == \E i \in 1..Len(jobsFile) : jobsFile[i].job_id = j
NoRequestInFlight == \A r \in DOMAIN jobReq : jobReq[r].pc \in {"idle", "done"}

\* C27: under any interleaving of /jobs/create and /jobs/next, no job is handed
\* out by two /jobs/next calls, and once no request is in flight every accepted
\* job is still in the queue or was handed out by exactly one /jobs/next call.
C27_JobConservation ==
    /\ \A j \in AcceptedJobs : Cardinality(HandedOutBy(j)) <= 1
    /\ NoRequestInFlight =>
          \A j \in AcceptedJobs : InQueue(j) \/ Cardinality(HandedOutBy(j)) = 1

\* A run_analysis call for t in GPU-worker mode that passed every check (the
\* session exists, has three images with files, PUBLIC_BASE_URL is set) has
\* been answered.
GpuRunEnded(t) ==
    /\ mainEnv.use_gpu_worker
    /\ mainEnv.public_base_url
    /\ resp[t] \in {"queued", "500_NameError"}

\* C29: in GPU-worker mode run_analysis leaves the session queued, a queued
\* session has a job for its token in the queue /jobs/next serves, and a
\* /jobs/{job_id}/result call moves the session to analysis_completed.
C29_QueuedJobReachesWorker ==
    \A t \in DOMAIN sessions :
        /\ sessions[t].status = "queued" => InQueue(t)
        /\ GpuRunEnded(t) => sessions[t].status = "queued"
        /\ resp[t] \in {"result_ok", "result_500_NameError"}
              => sessions[t].status = "analysis_completed"

NoUploadInFlight == \A c \in DOMAIN upCall : upCall[c].pc \in {"idle", "done"}

\* C28: once all in-flight uploads for a token have finished, every image an
\* upload_images call reported as uploaded is listed in the session record and
\* is backed by its own stored file, also when two calls interleave at their
\* await points.
C28_NoLostUpload ==
    NoUploadInFlight =>
        \A c \in DOMAIN upCall :
            upCall[c].resp = "ok" =>
                \A k \in 1..Len(upCall[c].images) :
                    LET n == upCall[c].images[k]
                    IN /\ \E j \in 1..Len(upSession.images) : upSession.images[j] = n
                       /\ n \in DOMAIN upDisk
                       /\ upDisk[n][1] = c

=============================================================================
